---- MODULE Spec2Model ----
(***************************************************************************)
(* ptodo: the synchronization engine (ptodo/git_service.py, GitService)    *)
(* and the task record codec (ptodo/serda.py, Task and parse_task).        *)
(* Spec is the engine, RemoteSpec the remotes of a repository with several *)
(* names and URLs, TaskSpec the codec, PrioritySpec the priority of a task *)
(* under construction, parsing, completion and the priority commands,      *)
(* SortSpec sort_tasks, and StoreSpec the task store (ptodo/core/core.py)  *)
(* with the commands add and done run by two invocations.                  *)
(*                                                                         *)
(* The repository is modelled by what GitService reads and writes through  *)
(* pygit2: whether a repository is discoverable, the configured remotes,   *)
(* the working tree, the index, the commits on the current branch, the     *)
(* remote-tracking references and the state of the remote server.  Every   *)
(* GitService method is an operator from a repository value and the        *)
(* outcomes of the library calls it makes (env) to a result                *)
(* [repo, ret, trace]; every public method is also an action.              *)
(*                                                                         *)
(* What the model keeps of git:                                            *)
(*  - a file is its content; the index and a tree map files to contents;   *)
(*  - of the commits only the parents are kept, and the tree of the commit *)
(*    HEAD points to, the one tree commit() compares with;                 *)
(*  - commit() gives a commit the single parent HEAD, so commits of        *)
(*    another device never become ancestors of HEAD: once the remote       *)
(*    branch holds such commits a push of the branch is rejected as        *)
(*    non-fast-forward;                                                    *)
(*  - the URLs of a remote name the same server.                           *)
(***************************************************************************)
EXTENDS Integers, Sequences, FiniteSets, TLC

VARIABLES
    isRepo,      \* pygit2.discover_repository(repo_dir) finds a repository
    remotes,     \* repo.remotes: sequence of [name, url], in configuration order
    branch,      \* the branch HEAD points to (repo.head.shorthand once born)
    worktree,    \* working tree: file -> content
    index,       \* repo.index: file -> content, NoEntry when not in the index
    commits,     \* commits of the current branch, oldest first; HEAD is the last
    headTree,    \* tree of the commit HEAD points to (the only tree the code reads)
    pushed,      \* how many of the local commits the remote branch holds
    srvForeign,  \* branches of the remote that hold commits of another device
    pending,     \* history: a sync committed, its push failed, none succeeded since
    settled,     \* history: the call before was a sync of all changes that committed
    last,        \* record of the most recent call: op, args, before, ret, trace
    task,        \* the Task object at hand (serda.Task)
    line,        \* the line of todo.txt at hand (a str)
    today,       \* datetime.date.today()
    step,        \* record of the most recent operation on the task
    config,      \* the configuration file: get_config(key)
    procs,       \* the command invocations under way: position, tasks read
    tasks        \* the list of tasks at hand (list[Task])

repoVars == <<isRepo, remotes, branch, worktree, index, commits, headTree,
              pushed, srvForeign, pending, settled, last>>

taskVars == <<task, line, today, step>>

storeVars == <<config, procs, tasks>>

vars == <<isRepo, remotes, branch, worktree, index, commits, headTree,
          pushed, srvForeign, pending, settled, last, task, line, today, step,
          config, procs, tasks>>

----------------------------------------------------------------------------
(* Bounds *)

MaxCommits == 2

\* longest list of tasks given to sort_tasks
MaxLen == 3

(* Domains *)

TodoFile == "todo.txt"
DoneFile == "done.txt"
Outside == "/elsewhere/todo.txt"
Sibling == "<repo_dir>-old/todo.txt"
None == "None"
Files == {TodoFile, DoneFile}
NoEntry == "none"
Contents == {"v1", "v2"}
Conflicted == "<<<<<<<"
Branches == {"master", "main"}
RemoteNames == {"origin"}
Urls == {"url1"}
Messages == {"", " ", "Auto-sync changes"}
DefaultMessage == "Auto-sync changes"

\* None where a str is expected (no str equals it: "None" is not a character)
NoneStr == <<"None">>

\* None where a date is expected
NoDate == <<0, 0, 0>>

True == "True"
False == "False"
ValueError == "ValueError"

Ev(fn, ret) == [fn |-> fn, ret |-> ret]

Res(r, ret, trace) == [repo |-> r, ret |-> ret, trace |-> trace]

Repo ==
    [isRepo |-> isRepo, remotes |-> remotes, branch |-> branch,
     worktree |-> worktree, index |-> index, commits |-> commits,
     headTree |-> headTree, pushed |-> pushed, srvForeign |-> srvForeign]

----------------------------------------------------------------------------
(* Python helpers *)

\* str.strip() on the messages of the model
Strip(s) == IF s = " " THEN "" ELSE s

\* the tree without entries: what HEAD holds while it is unborn
EmptyTree == [f \in Files |-> NoEntry]

\* repo.status(): the files whose index entry differs from HEAD or whose
\* working-tree content differs from the index (untracked files included)
Status(r) ==
    {f \in Files : r.index[f] # r.headTree[f] \/ r.worktree[f] # r.index[f]}

\* the branches that exist on the remote server
SrvBranches(r) ==
    r.srvForeign \cup (IF r.pushed > 0 THEN {r.branch} ELSE {})

----------------------------------------------------------------------------
(* GitService queries *)

is_repo(r) == r.isRepo

has_remote(r, env) ==
    IF ~is_repo(r) THEN FALSE
    ELSE IF env.access = "err" THEN FALSE
    ELSE Len(r.remotes) > 0

----------------------------------------------------------------------------
(* Outcomes of the library calls made during one call of a GitService      *)
(* method: the inputs the environment supplies.                            *)

AllEnvs ==
    [access : {"ok", "err"},              \* pygit2.Repository(...) raises GitError
     fetch  : {"ok", "err"},              \* remote.fetch()
     merge  : {"clean", "conflicts", "err"}, \* repo.merge(target) of foreign commits
     stage  : {"ok", "err"},              \* index.add / index.add_all / index.write
     status : {"ok", "err"},              \* repo.status() in sync
     commit : {"ok", "err"},              \* write_tree / Signature / create_commit
     push   : {"ok", "auth", "other"},    \* remote.push(...)
     create : {"ok", "err"}]              \* repo.remotes.create(name, url)

EnvDefault ==
    [access |-> "ok", fetch |-> "ok", merge |-> "clean", stage |-> "ok",
     status |-> "ok", commit |-> "ok", push |-> "ok", create |-> "ok"]

\* Each scenario once: the outcome of a library call that is never reached
\* is left at its default.
Canonical(e) ==
    /\ e.access = "err" => e = [EnvDefault EXCEPT !.access = "err"]
    /\ e.fetch = "err" => e.merge = EnvDefault.merge
    /\ e.stage = "err" =>
           e.status = "ok" /\ e.commit = "ok" /\ e.push = "ok"
    /\ e.status = "err" => e.commit = "ok" /\ e.push = "ok"
    /\ e.commit = "err" => e.push = "ok"

\* the outcomes a call of sync can meet
SyncEnvs == {e \in AllEnvs : Canonical(e) /\ e.create = "ok"}

\* the outcomes a call of one of the other methods can meet
AccessEnvs == {[EnvDefault EXCEPT !.access = a] : a \in {"ok", "err"}}
StageEnvs == AccessEnvs \cup {[EnvDefault EXCEPT !.stage = "err"]}
CommitEnvs == AccessEnvs \cup {[EnvDefault EXCEPT !.commit = "err"]}
PullEnvs == {e \in SyncEnvs : e = [EnvDefault EXCEPT !.access = e.access,
                                     !.fetch = e.fetch, !.merge = e.merge]}
PushEnvs == AccessEnvs \cup {[EnvDefault EXCEPT !.push = x] : x \in {"auth", "other"}}
CreateEnvs == AccessEnvs \cup {[EnvDefault EXCEPT !.create = "err"]}

----------------------------------------------------------------------------
(* GitService operations *)

\* the content a clean merge of the other device's commits leaves in todo.txt
RemoteContent == "v2"

\* str(file_path).startswith(str(self.repo_dir)): the files of the repository,
\* and also a path in a directory whose name begins with the name of repo_dir
StartsWithRepoDir(file_path) == file_path \in Files \cup {Sibling}

\* file_path.relative_to(self.repo_dir) raises ValueError unless file_path
\* lies under repo_dir
RelativeToRaises(file_path) == file_path \notin Files

\* mutant: a path outside the repository is an ordinary staging failure
stage_changes_OutsideIsFalse(r, file_path, env) ==
    IF ~is_repo(r) THEN Res(r, False, <<>>)
    ELSE IF env.access = "err" THEN Res(r, False, <<>>)
    ELSE IF file_path # None /\ ~StartsWithRepoDir(file_path)
         THEN Res(r, False, <<>>)
    ELSE IF file_path # None /\ RelativeToRaises(file_path)
         THEN Res(r, False, <<>>)
    ELSE IF env.stage = "err" THEN Res(r, False, <<>>)
    ELSE LET idx == IF file_path # None
                    THEN [r.index EXCEPT ![file_path] = r.worktree[file_path]]
                    ELSE r.worktree
         IN  Res([r EXCEPT !.index = idx], True, <<>>)

\* mutant: without a path only todo.txt is staged, not every change
stage_changes_NoPathStagesTodo(r, file_path, env) ==
    IF ~is_repo(r) THEN Res(r, False, <<>>)
    ELSE IF env.access = "err" THEN Res(r, False, <<>>)
    ELSE IF file_path # None /\ ~StartsWithRepoDir(file_path)
         THEN Res(r, ValueError, <<>>)
    ELSE IF file_path # None /\ RelativeToRaises(file_path)
         THEN Res(r, ValueError, <<>>)
    ELSE IF env.stage = "err" THEN Res(r, False, <<>>)
    ELSE LET idx == IF file_path # None
                    THEN [r.index EXCEPT ![file_path] = r.worktree[file_path]]
                    ELSE [r.index EXCEPT ![TodoFile] = r.worktree[TodoFile]]
         IN  Res([r EXCEPT !.index = idx], True, <<>>)

\* file_path is None or a Path (the TypeError of line 136 is outside the model)
stage_changes(r, file_path, env) ==
    IF ~is_repo(r) THEN Res(r, False, <<>>)
    ELSE IF env.access = "err" THEN Res(r, False, <<>>)
    ELSE IF file_path # None /\ ~StartsWithRepoDir(file_path)
         THEN Res(r, ValueError, <<>>)
    ELSE IF file_path # None /\ RelativeToRaises(file_path)
         THEN Res(r, ValueError, <<>>)
    ELSE IF env.stage = "err" THEN Res(r, False, <<>>)
    ELSE LET idx == IF file_path # None
                    THEN [r.index EXCEPT ![file_path] = r.worktree[file_path]]
                    ELSE r.worktree
         IN  Res([r EXCEPT !.index = idx], True, <<>>)

\* mutant: commit also when the tree equals the tree of HEAD
commit_NoTreeCheck(r, message, env) ==
    IF ~is_repo(r) THEN Res(r, False, <<>>)
    ELSE IF Strip(message) = "" THEN Res(r, False, <<>>)
    ELSE IF env.access = "err" THEN Res(r, False, <<>>)
    ELSE LET tree_id == r.index
             parents == IF Len(r.commits) = 0 THEN <<>> ELSE <<Len(r.commits)>>
         IN  IF env.commit = "err"
             THEN Res(r, False, <<>>)
             ELSE Res([r EXCEPT !.commits = Append(@, [parents |-> parents]),
                                !.headTree = tree_id],
                      True, <<>>)

\* mutant: commit without asking whether the directory is a repository
commit_NoRepoCheck(r, message, env) ==
    IF Strip(message) = "" THEN Res(r, False, <<>>)
    ELSE IF env.access = "err" THEN Res(r, False, <<>>)
    ELSE LET tree_id == r.index
             parents == IF Len(r.commits) = 0 THEN <<>> ELSE <<Len(r.commits)>>
         IN  IF parents # <<>> /\ tree_id = r.headTree
             THEN Res(r, False, <<>>)
             ELSE IF env.commit = "err"
             THEN Res(r, False, <<>>)
             ELSE Res([r EXCEPT !.commits = Append(@, [parents |-> parents]),
                                !.headTree = tree_id],
                      True, <<>>)

commit(r, message, env) ==
    IF ~is_repo(r) THEN Res(r, False, <<>>)
    ELSE IF Strip(message) = "" THEN Res(r, False, <<>>)
    ELSE IF env.access = "err" THEN Res(r, False, <<>>)
    ELSE LET tree_id == r.index
             parents == IF Len(r.commits) = 0 THEN <<>> ELSE <<Len(r.commits)>>
         IN  IF parents # <<>> /\ tree_id = r.headTree
             THEN Res(r, False, <<>>)
             ELSE IF env.commit = "err"
             THEN Res(r, False, <<>>)
             ELSE Res([r EXCEPT !.commits = Append(@, [parents |-> parents]),
                                !.headTree = tree_id],
                      True, <<>>)

\* repo.merge(remote_ref.target) for the remote-tracking reference of branch b:
\* nothing to do when the reference holds no commit of another device;
\* otherwise the merge raises, or leaves conflict markers in the working
\* tree, or brings the other device's content into working tree and index.
\* HEAD does not move.
merge(r, b, env) ==
    IF b \notin r.srvForeign
    THEN Res(r, True, <<Ev("merge", "ok")>>)
    ELSE IF env.merge = "err" THEN Res(r, True, <<Ev("merge", "GitError")>>)
    ELSE IF env.merge = "conflicts"
    THEN Res([r EXCEPT !.worktree[TodoFile] = Conflicted],
             True, <<Ev("merge", "ok")>>)
    ELSE Res([r EXCEPT !.worktree[TodoFile] = RemoteContent,
                       !.index[TodoFile] = RemoteContent],
             True, <<Ev("merge", "ok")>>)

\* mutant: a GitError of repo.merge fails the pull
pull_merge_FailOnError(r, b, t, env) ==
    LET m == merge(r, b, env)
    IN  IF m.trace[1].ret = "GitError"
        THEN Res(m.repo, False, t \o m.trace)
        ELSE Res(m.repo, True, t \o m.trace)

\* pull, lines 310-322: merge the remote-tracking reference of branch b;
\* the except branch (a GitError of repo.merge) returns True like the try branch
pull_merge(r, b, t, env) ==
    LET m == merge(r, b, env)
    IN  IF m.trace[1].ret = "GitError"
        THEN Res(m.repo, True, t \o m.trace)
        ELSE Res(m.repo, True, t \o m.trace)

\* pull, lines 286-308: fetch, then look the remote-tracking reference up
pull_fetch(r, branch_name, env) ==
    IF env.fetch = "err" THEN Res(r, False, <<Ev("fetch", "GitError")>>)
    ELSE LET references == SrvBranches(r)
             fetched == <<Ev("fetch", "ok")>>
         IN  IF branch_name \notin references
             THEN IF "master" \notin references
                  THEN Res(r, True, fetched)
                  ELSE pull_merge(r, "master", fetched, env)
             ELSE pull_merge(r, branch_name, fetched, env)

\* mutant: without a remote, pull reports success
pull_NoRemoteOk(r, env) ==
    IF ~is_repo(r) THEN Res(r, False, <<>>)
    ELSE IF ~has_remote(r, env) THEN Res(r, True, <<>>)
    ELSE LET branch_name == IF Len(r.commits) = 0 THEN "master" ELSE r.branch
         IN  pull_fetch(r, branch_name, env)

\* lines 250-284: not a repository or no remote -> False; the branch to merge
pull(r, env) ==
    IF ~is_repo(r) \/ ~has_remote(r, env) THEN Res(r, False, <<>>)
    ELSE LET branch_name == IF Len(r.commits) = 0 THEN "master" ELSE r.branch
         IN  pull_fetch(r, branch_name, env)

\* mutant: an authentication failure of remote.push is not caught
push_RaiseOnAuth(r, env) ==
    IF ~is_repo(r) \/ ~has_remote(r, env) THEN Res(r, False, <<>>)
    ELSE IF Len(r.commits) = 0 THEN Res(r, False, <<>>)
    ELSE IF env.push = "auth"
         THEN Res(r, "GitError", <<Ev("remote.push", "authentication")>>)
    ELSE IF env.push = "other"
         THEN Res(r, False, <<Ev("remote.push", "other")>>)
    ELSE IF r.branch \in r.srvForeign
         THEN Res(r, False, <<Ev("remote.push", "non-fast-forward")>>)
    ELSE Res([r EXCEPT !.pushed = Len(r.commits)],
             True, <<Ev("remote.push", "ok")>>)

push(r, env) ==
    IF ~is_repo(r) \/ ~has_remote(r, env) THEN Res(r, False, <<>>)
    ELSE IF Len(r.commits) = 0 THEN Res(r, False, <<>>)
    ELSE IF env.push = "auth"
         THEN Res(r, False, <<Ev("remote.push", "authentication")>>)
    ELSE IF env.push = "other"
         THEN Res(r, False, <<Ev("remote.push", "other")>>)
    ELSE IF r.branch \in r.srvForeign
         THEN Res(r, False, <<Ev("remote.push", "non-fast-forward")>>)
    ELSE Res([r EXCEPT !.pushed = Len(r.commits)],
             True, <<Ev("remote.push", "ok")>>)

NoCall(r) == Res(r, True, <<>>)

\* mutant: the result of push becomes the result of sync
sync_push_FailOnPush(r, hr, auto_sync, t, env) ==
    IF hr /\ auto_sync
    THEN LET q == push(r, env)
         IN  Res(q.repo, q.ret, t \o <<Ev("push", q.ret)>> \o q.trace)
    ELSE Res(r, True, t)

\* mutant: push whenever there is a remote, auto_sync or not
sync_push_IgnoreAutoSync(r, hr, auto_sync, t, env) ==
    IF hr
    THEN LET q == push(r, env)
         IN  Res(q.repo, True, t \o <<Ev("push", q.ret)>> \o q.trace)
    ELSE Res(r, True, t)

\* sync, lines 445-452: push when there is a remote and auto_sync is set
sync_push(r, hr, auto_sync, t, env) ==
    IF hr /\ auto_sync
    THEN LET q == push(r, env)
         IN  Res(q.repo, True, t \o <<Ev("push", q.ret)>> \o q.trace)
    ELSE Res(r, True, t)

\* mutant: a failed commit does not stop the pipeline
sync_commit_IgnoreFailure(r, hr, commit_message, auto_commit, auto_sync, t, env) ==
    IF env.status = "err" THEN Res(r, False, t \o <<Ev("status", "GitError")>>)
    ELSE IF Status(r) = {} THEN Res(r, True, t \o <<Ev("status", "clean")>>)
    ELSE IF ~auto_commit THEN Res(r, True, t \o <<Ev("status", "changes")>>)
    ELSE LET c  == commit(r, commit_message, env)
             t3 == t \o <<Ev("status", "changes"), Ev("commit", c.ret)>>
                     \o c.trace
         IN  sync_push(c.repo, hr, auto_sync, t3, env)

\* mutant: commit even when the status is clean
sync_commit_NoCleanCheck(r, hr, commit_message, auto_commit, auto_sync, t, env) ==
    IF env.status = "err" THEN Res(r, False, t \o <<Ev("status", "GitError")>>)
    ELSE IF ~auto_commit
         THEN Res(r, True, t \o <<Ev("status",
                     IF Status(r) = {} THEN "clean" ELSE "changes")>>)
    ELSE LET c  == commit(r, commit_message, env)
             t3 == t \o <<Ev("status",
                             IF Status(r) = {} THEN "clean" ELSE "changes"),
                          Ev("commit", c.ret)>>
                     \o c.trace
         IN  IF c.ret = False THEN Res(c.repo, False, t3)
             ELSE sync_push(c.repo, hr, auto_sync, t3, env)

\* mutant: commit whether auto_commit is set or not
sync_commit_IgnoreAutoCommit(r, hr, commit_message, auto_commit, auto_sync, t, env) ==
    IF env.status = "err" THEN Res(r, False, t \o <<Ev("status", "GitError")>>)
    ELSE IF Status(r) = {} THEN Res(r, True, t \o <<Ev("status", "clean")>>)
    ELSE LET c  == commit(r, commit_message, env)
             t3 == t \o <<Ev("status", "changes"), Ev("commit", c.ret)>>
                     \o c.trace
         IN  IF c.ret = False THEN Res(c.repo, False, t3)
             ELSE sync_push(c.repo, hr, auto_sync, t3, env)

\* mutant: a clean status still goes on to the push
sync_commit_PushWhenClean(r, hr, commit_message, auto_commit, auto_sync, t, env) ==
    IF env.status = "err" THEN Res(r, False, t \o <<Ev("status", "GitError")>>)
    ELSE IF Status(r) = {}
         THEN sync_push(r, hr, auto_sync, t \o <<Ev("status", "clean")>>, env)
    ELSE IF ~auto_commit THEN Res(r, True, t \o <<Ev("status", "changes")>>)
    ELSE LET c  == commit(r, commit_message, env)
             t3 == t \o <<Ev("status", "changes"), Ev("commit", c.ret)>>
                     \o c.trace
         IN  IF c.ret = False THEN Res(c.repo, False, t3)
             ELSE sync_push(c.repo, hr, auto_sync, t3, env)

\* sync, lines 421-444 and 454-457: read the status, commit the changes
sync_commit(r, hr, commit_message, auto_commit, auto_sync, t, env) ==
    IF env.status = "err" THEN Res(r, False, t \o <<Ev("status", "GitError")>>)
    ELSE IF Status(r) = {} THEN Res(r, True, t \o <<Ev("status", "clean")>>)
    ELSE IF ~auto_commit THEN Res(r, True, t \o <<Ev("status", "changes")>>)
    ELSE LET c  == commit(r, commit_message, env)
             t3 == t \o <<Ev("status", "changes"), Ev("commit", c.ret)>>
                     \o c.trace
         IN  IF c.ret = False THEN Res(c.repo, False, t3)
             ELSE sync_push(c.repo, hr, auto_sync, t3, env)

\* mutant: a failed staging does not stop the pipeline
sync_stage_IgnoreFailure(r, hr, file_path, commit_message, auto_commit, auto_sync, t, env) ==
    LET s  == stage_changes(r, file_path, env)
        t2 == t \o <<Ev("stage_changes", s.ret)>> \o s.trace
    IN  IF s.ret = ValueError THEN Res(s.repo, ValueError, t2)
        ELSE sync_commit(s.repo, hr, commit_message, auto_commit, auto_sync,
                         t2, env)

\* sync, lines 415-419: stage; a ValueError of stage_changes propagates
sync_stage(r, hr, file_path, commit_message, auto_commit, auto_sync, t, env) ==
    LET s  == stage_changes(r, file_path, env)
        t2 == t \o <<Ev("stage_changes", s.ret)>> \o s.trace
    IN  IF s.ret = ValueError THEN Res(s.repo, ValueError, t2)
        ELSE IF s.ret = False THEN Res(s.repo, False, t2)
        ELSE sync_commit(s.repo, hr, commit_message, auto_commit, auto_sync,
                         t2, env)

\* mutant: a failed pull ends the call
sync_AbortOnPull(r, file_path, commit_message, auto_commit, auto_sync, env) ==
    IF ~is_repo(r) THEN Res(r, False, <<>>)
    ELSE LET hr == has_remote(r, env)
             p  == IF hr THEN pull(r, env) ELSE NoCall(r)
             t1 == IF hr THEN <<Ev("pull", p.ret)>> ELSE <<>>
         IN  IF p.ret = False THEN Res(p.repo, False, t1)
             ELSE sync_stage(p.repo, hr, file_path, commit_message,
                             auto_commit, auto_sync, t1, env)

\* lines 385-413: not a repository -> False; has_remote once; pull if remote
sync(r, file_path, commit_message, auto_commit, auto_sync, env) ==
    IF ~is_repo(r) THEN Res(r, False, <<>>)
    ELSE LET hr == has_remote(r, env)
             p  == IF hr THEN pull(r, env) ELSE NoCall(r)
             t1 == IF hr THEN <<Ev("pull", p.ret)>> ELSE <<>>
         IN  sync_stage(p.repo, hr, file_path, commit_message, auto_commit,
                        auto_sync, t1, env)

init(r, env) ==
    IF is_repo(r) THEN Res(r, True, <<>>)
    ELSE IF env.access = "err"
         THEN Res(r, False, <<>>)
    ELSE Res([r EXCEPT !.isRepo = TRUE], True, <<>>)

\* position of the remote called name in r.remotes, 0 if there is none
RemoteIndex(r, name) ==
    IF \E i \in 1..Len(r.remotes) : r.remotes[i].name = name
    THEN CHOOSE i \in 1..Len(r.remotes) : r.remotes[i].name = name
    ELSE 0

RemoveAt(s, i) == SubSeq(s, 1, i - 1) \o SubSeq(s, i + 1, Len(s))

\* mutant: a remote that exists is left as it is
add_remote_KeepExisting(r, name, url, env) ==
    IF ~is_repo(r) THEN Res(r, False, <<>>)
    ELSE IF env.access = "err" THEN Res(r, False, <<>>)
    ELSE LET i == RemoteIndex(r, name)
             created == [name |-> name, url |-> url]
         IN  IF i # 0
             THEN Res(r, True, <<>>)
             ELSE IF env.create = "err"
                  THEN Res(r, False, <<>>)
                  ELSE Res([r EXCEPT !.remotes = Append(@, created)],
                           True, <<>>)

add_remote(r, name, url, env) ==
    IF ~is_repo(r) THEN Res(r, False, <<>>)
    ELSE IF env.access = "err" THEN Res(r, False, <<>>)
    ELSE LET i == RemoteIndex(r, name)
             created == [name |-> name, url |-> url]
         IN  IF i # 0
             THEN LET deleted == [r EXCEPT !.remotes = RemoveAt(@, i)]
                  IN  IF env.create = "err"
                      THEN Res(deleted, False, <<>>)
                      ELSE Res([deleted EXCEPT
                                  !.remotes = Append(@, created)],
                               True, <<>>)
             ELSE IF env.create = "err"
                  THEN Res(r, False, <<>>)
                  ELSE Res([r EXCEPT !.remotes = Append(@, created)],
                           True, <<>>)

----------------------------------------------------------------------------
(* State machine.  One command invocation is one call of a GitService      *)
(* method: the call runs to completion and leaves its record in last; the  *)
(* caller reads the result (Return) before anything else happens.          *)

Idle == [op |-> "idle", args |-> <<>>, before |-> <<>>, ret |-> None,
         trace |-> <<>>]

\* events of a trace
HasEv(t, fn) == \E i \in 1..Len(t) : t[i].fn = fn
EvPos(t, fn) == CHOOSE i \in 1..Len(t) : t[i].fn = fn
EvRet(t, fn) == IF HasEv(t, fn) THEN t[EvPos(t, fn)].ret ELSE None
EvCount(t, fn) == Cardinality({i \in 1..Len(t) : t[i].fn = fn})

\* no operation on a task yet
NoStep == [op |-> "none", before |-> <<>>, line |-> <<>>, fresh |-> FALSE,
           origin |-> <<>>, none |-> FALSE, arg |-> <<>>]

\* a directory that is not a repository yet, no call made
RepoInit ==
    /\ isRepo = FALSE
    /\ remotes = <<>>
    /\ branch = "main"
    /\ worktree = [f \in Files |-> "v1"]
    /\ index = [f \in Files |-> NoEntry]
    /\ commits = <<>>
    /\ headTree = EmptyTree
    /\ pushed = 0
    /\ srvForeign = {}
    /\ pending = FALSE
    /\ settled = FALSE
    /\ last = Idle

\* no configuration read, no command under way, no list at hand
StoreIdle ==
    /\ config = <<>>
    /\ procs = <<>>
    /\ tasks = <<>>

Init ==
    /\ RepoInit
    /\ task = <<>>
    /\ line = <<>>
    /\ today = NoDate
    /\ step = NoStep
    /\ StoreIdle

\* outcomes of library calls that the state rules out are left at their default
Relevant(r, e) ==
    /\ ~r.isRepo => e = EnvDefault
    /\ Len(r.remotes) = 0 =>
           e.fetch = "ok" /\ e.merge = EnvDefault.merge /\ e.push = "ok"
    /\ r.srvForeign = {} => e.merge = EnvDefault.merge

\* the call op(args) ran with result res
Called(op, args, res) ==
    /\ Len(res.repo.commits) <= MaxCommits
    /\ isRepo' = res.repo.isRepo
    /\ remotes' = res.repo.remotes
    /\ branch' = res.repo.branch
    /\ worktree' = res.repo.worktree
    /\ index' = res.repo.index
    /\ commits' = res.repo.commits
    /\ headTree' = res.repo.headTree
    /\ pushed' = res.repo.pushed
    /\ srvForeign' = res.repo.srvForeign
    /\ pending' = IF EvRet(res.trace, "remote.push") = "ok" THEN FALSE
                  ELSE IF /\ op = "sync"
                          /\ EvRet(res.trace, "commit") = True
                          /\ EvRet(res.trace, "push") = False
                       THEN TRUE
                       ELSE pending
    /\ settled' = /\ op = "sync"
                  /\ args.file_path = None
                  /\ EvRet(res.trace, "commit") = True
    /\ last' = [op |-> op, args |-> args,
                before |-> [commits |-> Len(commits), pushed |-> pushed,
                            pending |-> pending, settled |-> settled],
                ret |-> res.ret, trace |-> res.trace]
    /\ UNCHANGED taskVars
    /\ UNCHANGED storeVars

\* has_remote() returns a bool
HasRemote ==
    /\ last = Idle
    /\ \E env \in AccessEnvs :
        /\ Relevant(Repo, env)
        /\ \E hr \in {has_remote(Repo, env)} :
               Called("has_remote", [access |-> env.access],
                      Res(Repo, IF hr THEN True ELSE False, <<>>))

GitInit ==
    /\ last = Idle
    /\ \E env \in AccessEnvs :
        \E res \in {init(Repo, env)} : Called("init", <<>>, res)

AddRemote ==
    /\ last = Idle
    /\ \E name \in RemoteNames, url \in Urls, env \in CreateEnvs :
        /\ Relevant(Repo, env)
        /\ \E res \in {add_remote(Repo, name, url, env)} :
               Called("add_remote", [name |-> name, url |-> url], res)

\* a call records its arguments and what it was called on
StageChanges ==
    /\ last = Idle
    /\ \E file_path \in Files \cup {None, Outside, Sibling}, env \in StageEnvs :
        /\ Relevant(Repo, env)
        /\ \E res \in {stage_changes(Repo, file_path, env)} :
               Called("stage_changes",
                      [file_path |-> file_path, access |-> env.access,
                       is_repo |-> isRepo, index |-> index], res)

Commit ==
    /\ last = Idle
    /\ \E message \in Messages, env \in CommitEnvs :
        /\ Relevant(Repo, env)
        /\ \E res \in {commit(Repo, message, env)} :
               Called("commit",
                      [message |-> message, tree_same |-> (index = headTree)],
                      res)

Pull ==
    /\ last = Idle
    /\ \E env \in PullEnvs :
        /\ Relevant(Repo, env)
        /\ \E res \in {pull(Repo, env)} : Called("pull", <<>>, res)

Push ==
    /\ last = Idle
    /\ \E env \in PushEnvs :
        /\ Relevant(Repo, env)
        /\ \E res \in {push(Repo, env)} : Called("push", <<>>, res)

SyncPaths == {None, TodoFile, Outside}
SyncMessages == {"", DefaultMessage}

\* the call records its arguments, whether a library call of staging, status
\* or commit raised, and whether the file at file_path was the file of HEAD
\* when sync came to stage it (after its pull)
Sync ==
    /\ last = Idle
    /\ \E file_path \in SyncPaths, commit_message \in SyncMessages,
       auto_commit \in BOOLEAN, auto_sync \in BOOLEAN, env \in SyncEnvs :
        /\ Relevant(Repo, env)
        /\ \E res \in {sync(Repo, file_path, commit_message, auto_commit,
                            auto_sync, env)} :
               LET pulled == IF has_remote(Repo, env)
                             THEN pull(Repo, env).repo ELSE Repo
               IN  Called("sync",
                          [file_path |-> file_path,
                           commit_message |-> commit_message,
                           auto_commit |-> auto_commit,
                           auto_sync |-> auto_sync,
                           lib_ok |-> /\ env.access = "ok"
                                      /\ env.stage = "ok"
                                      /\ env.status = "ok"
                                      /\ env.commit = "ok",
                           path_clean |->
                               /\ file_path \in Files
                               /\ pulled.worktree[file_path]
                                      = pulled.headTree[file_path]
                               /\ pulled.index[file_path]
                                      = pulled.headTree[file_path]],
                          res)

\* the caller has read the result of the call
Return ==
    /\ last # Idle
    /\ last' = Idle
    /\ UNCHANGED <<isRepo, remotes, branch, worktree, index, commits,
                   headTree, pushed, srvForeign, pending, settled>>
    /\ UNCHANGED taskVars
    /\ UNCHANGED storeVars

\* the user (or a command) rewrites todo.txt in the working tree
EditFile ==
    \E c \in Contents :
        /\ last = Idle
        /\ c # worktree[TodoFile]
        /\ worktree' = [worktree EXCEPT ![TodoFile] = c]
        /\ settled' = FALSE
        /\ UNCHANGED <<isRepo, remotes, branch, index, commits, headTree,
                       pushed, srvForeign, pending, last>>
        /\ UNCHANGED taskVars
        /\ UNCHANGED storeVars

\* another device pushes its commits to the branch on the remote
RemoteAdvance ==
    /\ last = Idle
    /\ Len(remotes) > 0
    /\ branch \notin srvForeign
    /\ srvForeign' = srvForeign \cup {branch}
    /\ settled' = FALSE
    /\ UNCHANGED <<isRepo, remotes, branch, worktree, index, commits,
                   headTree, pushed, pending, last>>
    /\ UNCHANGED taskVars
    /\ UNCHANGED storeVars

Next ==
    \/ GitInit
    \/ HasRemote
    \/ AddRemote
    \/ StageChanges
    \/ Commit
    \/ Pull
    \/ Push
    \/ Sync
    \/ Return
    \/ EditFile
    \/ RemoteAdvance

Spec == Init /\ [][Next]_vars

----------------------------------------------------------------------------
(* The remotes of a repository on their own: GitService.add_remote called   *)
(* with several names and several URLs.                                    *)

AllRemoteNames == {"origin", "backup"}
AllUrls == {"url1", "url2"}

\* add_remote(name, url); the call records the remotes it found
AddRemoteAny ==
    /\ last = Idle
    /\ \E name \in AllRemoteNames, url \in AllUrls, env \in CreateEnvs :
        /\ Relevant(Repo, env)
        /\ \E res \in {add_remote(Repo, name, url, env)} :
               Called("add_remote",
                      [name |-> name, url |-> url, remotes |-> remotes], res)

RemoteNext ==
    \/ GitInit
    \/ AddRemoteAny
    \/ Return

RemoteSpec == Init /\ [][RemoteNext]_vars

TypeOK ==
    /\ isRepo \in BOOLEAN
    /\ Len(remotes) <= Cardinality(RemoteNames)
    /\ branch \in Branches
    /\ worktree \in [Files -> Contents \cup {Conflicted}]
    /\ index \in [Files -> {NoEntry} \cup Contents \cup {Conflicted}]
    /\ Len(commits) <= MaxCommits
    /\ (Len(commits) = 0) => (headTree = EmptyTree)
    /\ pushed \in 0..Len(commits)
    /\ srvForeign \subseteq Branches
    /\ pending \in BOOLEAN
    /\ settled \in BOOLEAN
    /\ pending => pushed < Len(commits)

----------------------------------------------------------------------------
(* The task record codec (ptodo/serda.py).  A Python str is the sequence   *)
(* of its characters, each a one-character string; a line of todo.txt is   *)
(* such a sequence, spaces included.  A date is <<year, month, day>>.      *)

DigitChars == <<"0", "1", "2", "3", "4", "5", "6", "7", "8", "9">>

\* the characters of the model in code-point order
Alphabet ==
    <<"\n", " ", "(", ")", "+", "-">> \o DigitChars \o <<":", "@",
      "A", "B", "C", "D", "E", "F", "G", "H", "I", "J", "K", "L", "M",
      "N", "O", "P", "Q", "R", "S", "T", "U", "V", "W", "X", "Y", "Z",
      "a", "b", "c", "d", "e", "f", "g", "h", "i", "j", "k", "l", "m",
      "n", "o", "p", "q", "r", "s", "t", "u", "v", "w", "x", "y", "z">>

Ord(c) == CHOOSE i \in 1..Len(Alphabet) : Alphabet[i] = c

\* [A-Z]
IsUpper(c) == Ord(c) >= Ord("A") /\ Ord(c) <= Ord("Z")

\* \d
IsDigit(c) == \E i \in 1..10 : DigitChars[i] = c

DigitVal(c) == (CHOOSE i \in 1..10 : DigitChars[i] = c) - 1

\* whitespace, as str.strip() sees it
IsSpace(c) == c \in {" ", "\n"}

\* truth value of an Optional[str]: None and "" are false
Truthy(s) == s # NoneStr /\ s # <<>>

RECURSIVE LStrip(_)
LStrip(s) == IF s # <<>> /\ IsSpace(s[1]) THEN LStrip(Tail(s)) ELSE s

RECURSIVE RStrip(_)
RStrip(s) ==
    IF s # <<>> /\ IsSpace(s[Len(s)])
    THEN RStrip(SubSeq(s, 1, Len(s) - 1)) ELSE s

\* str.strip()
StripStr(s) == RStrip(LStrip(s))

\* str.index(c) + 1, or 0 when c does not occur
IndexOf(s, c) ==
    IF \E i \in 1..Len(s) : s[i] = c
    THEN CHOOSE i \in 1..Len(s) :
             s[i] = c /\ \A j \in 1..(i - 1) : s[j] # c
    ELSE 0

\* str.split(" ")
RECURSIVE Split(_)
Split(s) ==
    LET i == IndexOf(s, " ")
    IN  IF i = 0 THEN <<s>>
        ELSE <<SubSeq(s, 1, i - 1)>> \o Split(SubSeq(s, i + 1, Len(s)))

\* " ".join(parts)
RECURSIVE Join(_)
Join(parts) ==
    IF parts = <<>> THEN <<>>
    ELSE IF Len(parts) = 1 THEN parts[1]
    ELSE parts[1] \o <<" ">> \o Join(Tail(parts))

\* str.startswith(prefix)
StartsWith(s, prefix) ==
    Len(s) >= Len(prefix) /\ SubSeq(s, 1, Len(prefix)) = prefix

\* a <= b for str (lexicographic by code point)
RECURSIVE StrLE(_, _)
StrLE(a, b) ==
    IF a = <<>> THEN TRUE
    ELSE IF b = <<>> THEN FALSE
    ELSE IF a[1] = b[1] THEN StrLE(Tail(a), Tail(b))
    ELSE Ord(a[1]) < Ord(b[1])

\* sorted(S) for a set of str
RECURSIVE Sorted(_)
Sorted(S) ==
    IF S = {} THEN <<>>
    ELSE LET m == CHOOSE x \in S : \A y \in S : StrLE(x, y)
         IN  <<m>> \o Sorted(S \ {m})

\* int(s) for a str of digits
RECURSIVE ToInt(_)
ToInt(s) ==
    IF s = <<>> THEN 0
    ELSE ToInt(SubSeq(s, 1, Len(s) - 1)) * 10 + DigitVal(s[Len(s)])

\* str.isdigit()
IsDigitStr(s) == s # <<>> /\ \A i \in 1..Len(s) : IsDigit(s[i])

\* n written with w digits, zero padded (%Y, %m, %d)
RECURSIVE Pad(_, _)
Pad(n, w) ==
    IF w = 0 THEN <<>>
    ELSE Pad(n \div 10, w - 1) \o <<DigitChars[(n % 10) + 1]>>

(* datetime.date *)

IsLeap(y) == (y % 4 = 0 /\ y % 100 # 0) \/ y % 400 = 0

DaysIn(y, m) ==
    IF m = 2 THEN (IF IsLeap(y) THEN 29 ELSE 28)
    ELSE IF m \in {4, 6, 9, 11} THEN 30 ELSE 31

ValidDate(y, m, d) ==
    /\ y >= 1
    /\ m \in 1..12
    /\ d >= 1
    /\ d <= DaysIn(y, m)

\* date + timedelta(days=1)
NextDay(dt) ==
    IF dt[3] < DaysIn(dt[1], dt[2]) THEN <<dt[1], dt[2], dt[3] + 1>>
    ELSE IF dt[2] < 12 THEN <<dt[1], dt[2] + 1, 1>>
    ELSE <<dt[1] + 1, 1, 1>>

\* date + timedelta(days=n)
RECURSIVE AddDays(_, _)
AddDays(dt, n) == IF n = 0 THEN dt ELSE AddDays(NextDay(dt), n - 1)

\* a <= b for dates
DateLE(a, b) ==
    \/ a[1] < b[1]
    \/ (a[1] = b[1] /\ a[2] < b[2])
    \/ (a[1] = b[1] /\ a[2] = b[2] /\ a[3] <= b[3])

\* date.strftime("%Y-%m-%d")
strftime(dt) ==
    Pad(dt[1], 4) \o <<"-">> \o Pad(dt[2], 2) \o <<"-">> \o Pad(dt[3], 2)

\* re.match(r"^\d{4}-\d{2}-\d{2}$", date_str)
DateShape(s) ==
    /\ Len(s) = 10
    /\ \A i \in {1, 2, 3, 4, 6, 7, 9, 10} : IsDigit(s[i])
    /\ s[5] = "-"
    /\ s[8] = "-"

\* None unless date_str has the shape and strptime accepts it
parse_date(date_str) ==
    IF date_str # <<>> /\ DateShape(date_str)
    THEN LET y == ToInt(SubSeq(date_str, 1, 4))
             m == ToInt(SubSeq(date_str, 6, 7))
             d == ToInt(SubSeq(date_str, 9, 10))
         IN  IF ValidDate(y, m, d) THEN <<y, m, d>> ELSE NoDate
    ELSE NoDate

(* dict[str, str] as a function from its keys *)

EmptyDict == [k \in {} |-> <<>>]

\* d[key] = value
SetItem(d, key, value) ==
    [k \in DOMAIN d \cup {key} |-> IF k = key THEN value ELSE d[k]]

(* Task *)

\* the metadata keys the code names
RecurKey == <<"r", "e", "c", "u", "r">>
DueKey == <<"d", "u", "e">>
PriKey == <<"p", "r", "i">>

\* mutant: the dataclass without __post_init__
Task_NoPostInit(completed, priority, completion_date, creation_date, description, projects, contexts, metadata, effort) ==
    [completed |-> completed,
     priority |-> priority,
     completion_date |-> completion_date,
     creation_date |-> creation_date,
     description |-> description,
     projects |-> projects,
     contexts |-> contexts,
     metadata |-> metadata,
     effort |-> effort]

\* Task(...): the dataclass constructor with __post_init__
Task(completed, priority, completion_date, creation_date, description, projects, contexts, metadata, effort) ==
    [completed |-> completed,
     priority |-> IF completed THEN NoneStr ELSE priority,
     completion_date |-> completion_date,
     creation_date |-> creation_date,
     description |-> description,
     projects |-> projects,
     contexts |-> contexts,
     metadata |-> metadata,
     effort |-> effort]

\* Task()
DefaultTask ==
    Task(FALSE, NoneStr, NoDate, NoDate, <<>>, {}, {}, EmptyDict, NoneStr)

\* mutant: the priority is cleared without being kept in the metadata
complete_DropPriority(t, today_) ==
    [t EXCEPT !.completed = TRUE,
              !.completion_date = today_,
              !.priority = NoneStr]

\* Task.complete()
complete(t, today_) ==
    [t EXCEPT !.metadata = IF Truthy(t.priority)
                           THEN SetItem(@, PriKey, t.priority)
                           ELSE @,
              !.completed = TRUE,
              !.completion_date = today_,
              !.priority = NoneStr]

\* the f-string tokens of __str__ for a sorted collection
Prefixed(prefix, names) ==
    [i \in 1..Len(names) |-> prefix \o names[i]]

\* mutant: the creation date is written before the completion date
Task_str_CreationFirst(t) ==
    LET keys == Sorted(DOMAIN t.metadata)
        parts ==
            (IF t.completed THEN <<<<"x">>>> ELSE <<>>)
            \o (IF Truthy(t.priority)
                THEN <<<<"(">> \o t.priority \o <<")">>>> ELSE <<>>)
            \o (IF t.creation_date # NoDate
                THEN <<strftime(t.creation_date)>> ELSE <<>>)
            \o (IF t.completed /\ t.completion_date # NoDate
                THEN <<strftime(t.completion_date)>> ELSE <<>>)
            \o <<t.description>>
            \o Prefixed(<<"+">>, Sorted(t.projects))
            \o Prefixed(<<"@">>, Sorted(t.contexts))
            \o (IF Truthy(t.effort)
                THEN <<<<"e", "f", "f", "o", "r", "t", ":">> \o t.effort>>
                ELSE <<>>)
            \o [i \in 1..Len(keys) |->
                    keys[i] \o <<":">> \o t.metadata[keys[i]]]
    IN  Join(parts)

\* Task.__str__
Task_str(t) ==
    LET keys == Sorted(DOMAIN t.metadata)
        parts ==
            (IF t.completed THEN <<<<"x">>>> ELSE <<>>)
            \o (IF Truthy(t.priority)
                THEN <<<<"(">> \o t.priority \o <<")">>>> ELSE <<>>)
            \o (IF t.completed /\ t.completion_date # NoDate
                THEN <<strftime(t.completion_date)>> ELSE <<>>)
            \o (IF t.creation_date # NoDate
                THEN <<strftime(t.creation_date)>> ELSE <<>>)
            \o <<t.description>>
            \o Prefixed(<<"+">>, Sorted(t.projects))
            \o Prefixed(<<"@">>, Sorted(t.contexts))
            \o (IF Truthy(t.effort)
                THEN <<<<"e", "f", "f", "o", "r", "t", ":">> \o t.effort>>
                ELSE <<>>)
            \o [i \in 1..Len(keys) |->
                    keys[i] \o <<":">> \o t.metadata[keys[i]]]
    IN  Join(parts)


\* re.match(r"^\([A-Z]\)$", part)
PriorityShape(part) ==
    /\ Len(part) = 3
    /\ part[1] = "("
    /\ IsUpper(part[2])
    /\ part[3] = ")"

EffortKey == <<"e", "f", "f", "o", "r", "t">>

\* mutant: effort:N is kept as metadata like any other key
RECURSIVE parse_parts_EffortAsMetadata(_, _, _)
parse_parts_EffortAsMetadata(parts, t, description_parts) ==
    IF parts = <<>>
    THEN [task |-> t, description_parts |-> description_parts]
    ELSE LET part == parts[1]
             colon == IndexOf(part, ":")
             key == SubSeq(part, 1, colon - 1)
             value == SubSeq(part, colon + 1, Len(part))
         IN  IF StartsWith(part, <<"+">>) /\ Len(part) > 1
             THEN parse_parts_EffortAsMetadata(Tail(parts),
                      [t EXCEPT !.projects = @ \cup {Tail(part)}],
                      description_parts)
             ELSE IF StartsWith(part, <<"@">>) /\ Len(part) > 1
             THEN parse_parts_EffortAsMetadata(Tail(parts),
                      [t EXCEPT !.contexts = @ \cup {Tail(part)}],
                      description_parts)
             ELSE IF colon > 1
             THEN parse_parts_EffortAsMetadata(Tail(parts),
                      [t EXCEPT !.metadata = SetItem(@, key, value)],
                      description_parts)
             ELSE parse_parts_EffortAsMetadata(Tail(parts), t,
                      Append(description_parts, part))

\* parse_task, lines 164-182: the loop over the parts after the dates
RECURSIVE parse_parts(_, _, _)
parse_parts(parts, t, description_parts) ==
    IF parts = <<>>
    THEN [task |-> t, description_parts |-> description_parts]
    ELSE LET part == parts[1]
             colon == IndexOf(part, ":")
             key == SubSeq(part, 1, colon - 1)
             value == SubSeq(part, colon + 1, Len(part))
         IN  IF StartsWith(part, <<"+">>) /\ Len(part) > 1
             THEN parse_parts(Tail(parts),
                      [t EXCEPT !.projects = @ \cup {Tail(part)}],
                      description_parts)
             ELSE IF StartsWith(part, <<"@">>) /\ Len(part) > 1
             THEN parse_parts(Tail(parts),
                      [t EXCEPT !.contexts = @ \cup {Tail(part)}],
                      description_parts)
             ELSE IF colon > 1
             THEN IF key = EffortKey
                  THEN parse_parts(Tail(parts), [t EXCEPT !.effort = value],
                           description_parts)
                  ELSE parse_parts(Tail(parts),
                           [t EXCEPT !.metadata = SetItem(@, key, value)],
                           description_parts)
             ELSE parse_parts(Tail(parts), t, Append(description_parts, part))

\* mutant: the priority of a completed line is cleared on parse
parse_task_ClearCompleted(line_) ==
    IF StripStr(line_) = <<>> THEN DefaultTask
    ELSE LET completed == StartsWith(line_, <<"x", " ">>)
             rest == IF completed THEN SubSeq(line_, 3, Len(line_)) ELSE line_
             parts0 == Split(StripStr(rest))
             has_priority == PriorityShape(parts0[1])
             parts == IF has_priority THEN Tail(parts0) ELSE parts0
             has_completion ==
                 /\ completed
                 /\ Len(parts) >= 1
                 /\ parse_date(parts[1]) # NoDate
             index0 == IF has_completion THEN 1 ELSE 0
             has_creation ==
                 /\ Len(parts) > index0
                 /\ parse_date(parts[index0 + 1]) # NoDate
             remaining_parts_index ==
                 IF has_creation THEN index0 + 1 ELSE index0
             header ==
                 [DefaultTask EXCEPT
                    !.completed = completed,
                    !.priority = IF has_priority /\ ~completed
                                 THEN <<parts0[1][2]>> ELSE NoneStr,
                    !.completion_date = IF has_completion
                                        THEN parse_date(parts[1]) ELSE NoDate,
                    !.creation_date = IF has_creation
                                      THEN parse_date(parts[index0 + 1])
                                      ELSE NoDate]
             body == parse_parts(
                         SubSeq(parts, remaining_parts_index + 1, Len(parts)),
                         header, <<>>)
         IN  [body.task EXCEPT
                !.description = StripStr(Join(body.description_parts))]

\* parse_task, lines 138-161: completion mark, priority, dates
parse_task(line_) ==
    IF StripStr(line_) = <<>> THEN DefaultTask
    ELSE LET completed == StartsWith(line_, <<"x", " ">>)
             rest == IF completed THEN SubSeq(line_, 3, Len(line_)) ELSE line_
             parts0 == Split(StripStr(rest))
             has_priority == PriorityShape(parts0[1])
             parts == IF has_priority THEN Tail(parts0) ELSE parts0
             has_completion ==
                 /\ completed
                 /\ Len(parts) >= 1
                 /\ parse_date(parts[1]) # NoDate
             index0 == IF has_completion THEN 1 ELSE 0
             has_creation ==
                 /\ Len(parts) > index0
                 /\ parse_date(parts[index0 + 1]) # NoDate
             remaining_parts_index ==
                 IF has_creation THEN index0 + 1 ELSE index0
             header ==
                 [DefaultTask EXCEPT
                    !.completed = completed,
                    !.priority = IF has_priority THEN <<parts0[1][2]>>
                                 ELSE NoneStr,
                    !.completion_date = IF has_completion
                                        THEN parse_date(parts[1]) ELSE NoDate,
                    !.creation_date = IF has_creation
                                      THEN parse_date(parts[index0 + 1])
                                      ELSE NoDate]
             body == parse_parts(
                         SubSeq(parts, remaining_parts_index + 1, Len(parts)),
                         header, <<>>)
         IN  [body.task EXCEPT
                !.description = StripStr(Join(body.description_parts))]

\* Task.validate_recurrence()
validate_recurrence(t) ==
    IF RecurKey \notin DOMAIN t.metadata THEN FALSE
    ELSE IF ~IsDigitStr(t.metadata[RecurKey]) THEN FALSE
    ELSE IF ToInt(t.metadata[RecurKey]) < 1 THEN FALSE
    ELSE IF DueKey \notin DOMAIN t.metadata THEN FALSE
    ELSE parse_date(t.metadata[DueKey]) # NoDate

\* recur, lines 64-66: the first due date after today
RECURSIVE next_due_date(_, _, _)
next_due_date(date, recur_days, today_) ==
    LET next == AddDays(date, recur_days)
    IN  IF DateLE(next, today_)
        THEN next_due_date(next, recur_days, today_)
        ELSE next

\* Task.recur(): <<>> for None, <<task>> for the new task.  The date of
\* lines 60-66 is computed and not used: the new task gets a copy of the
\* metadata and the priority field of the task as they are.
recur(t, today_) ==
    IF ~validate_recurrence(t) THEN <<>>
    ELSE LET due_date == parse_date(t.metadata[DueKey])
             recur_days == ToInt(t.metadata[RecurKey])
             computed == next_due_date(due_date, recur_days, today_)
         IN  <<Task(FALSE, t.priority, NoDate, today_, t.description,
                    t.projects, t.contexts, t.metadata, t.effort)>>

----------------------------------------------------------------------------
(* The codec as a state machine: a task is constructed or a line is read,  *)
(* and then serialized, parsed, completed and recurred in any order.       *)

\* dates of the model
Date0 == <<2024, 1, 1>>
Date1 == <<2024, 1, 15>>
Todays == {<<2024, 1, 20>>, <<2024, 12, 31>>}

\* descriptions made of plain words
PlainDescriptions ==
    {<<>>, <<"b", "u", "y">>, <<"b", "u", "y", " ", "i", "t">>,
     <<"x", " ", "i", "t">>}

\* and a description that holds a word the grammar reads as a project
Descriptions == PlainDescriptions \cup {<<"+", "p", " ", "b", "u", "y">>}

ProjectNames == {<<"p">>, <<"q">>}
ContextNames == {<<"h">>}
Priorities == {<<"A">>}
Efforts == {<<"3">>}

\* metadata of a recurring task: due:2024-01-01 recur:7
Recurring == SetItem(SetItem(EmptyDict, DueKey, strftime(Date0)), RecurKey, <<"7">>)

Metadatas == {EmptyDict, Recurring, SetItem(EmptyDict, PriKey, <<"B">>)}

\* the tasks a caller constructs or holds: every combination of the fields,
\* a completion date only on a completed task
Tasks ==
    {t \in [completed : BOOLEAN,
            priority : {NoneStr} \cup Priorities,
            completion_date : {NoDate, Date1},
            creation_date : {NoDate, Date0},
            description : Descriptions,
            projects : SUBSET ProjectNames,
            contexts : SUBSET ContextNames,
            metadata : Metadatas,
            effort : {NoneStr} \cup Efforts] :
        ~t.completed => t.completion_date = NoDate}

\* lines of a todo.txt written by hand or by another tool
RawLines ==
    {<<"x", " ", "(", "A", ")", " ", "2", "0", "2", "4", "-", "0", "1", "-", "1", "5", " ", "2", "0", "2", "4", "-", "0", "1", "-", "0", "1", " ", "b", "u", "y", " ", "+", "p", " ", "@", "h">>,
     <<"x", " ", "(", "B", ")", " ", "b", "u", "y", "\n">>,
     <<"(", "A", ")", " ", "b", "u", "y", " ", "d", "u", "e", ":", "2", "0", "2", "4", "-", "0", "1", "-", "0", "1", " ", "r", "e", "c", "u", "r", ":", "7">>,
     <<"x", " ", "(", "A", ")">>}

TaskInit ==
    /\ RepoInit
    /\ StoreIdle
    /\ today \in Todays
    /\ step = NoStep
    /\ \/ (task \in Tasks /\ line = <<>>)
       \/ (task = DefaultTask /\ line \in RawLines)

\* str(task); fresh: the task is parse_task(str(origin)) and line was str(origin)
Serialize ==
    /\ line' = Task_str(task)
    /\ step' = [op |-> "str", before |-> task, line |-> line,
                fresh |-> (step.op = "parse" /\ step.fresh),
                origin |-> IF step.op = "parse" /\ step.fresh
                           THEN step.before ELSE <<>>,
                none |-> FALSE, arg |-> <<>>]
    /\ UNCHANGED <<task, today>>
    /\ UNCHANGED repoVars
    /\ UNCHANGED storeVars

\* task = parse_task(line); fresh: the line is str() of the task held
Parse ==
    /\ task' = parse_task(line)
    /\ step' = [op |-> "parse", before |-> task, line |-> line,
                fresh |-> (step.op = "str"), origin |-> <<>>, none |-> FALSE,
                arg |-> <<>>]
    /\ UNCHANGED <<line, today>>
    /\ UNCHANGED repoVars
    /\ UNCHANGED storeVars

\* task.complete()
Complete ==
    /\ task' = complete(task, today)
    /\ step' = [op |-> "complete", before |-> task, line |-> line,
                fresh |-> FALSE, origin |-> <<>>, none |-> FALSE,
                arg |-> <<>>]
    /\ UNCHANGED <<line, today>>
    /\ UNCHANGED repoVars
    /\ UNCHANGED storeVars

\* task = task.recur(), when it is not None; fresh: the task was just completed
Recur ==
    /\ \E r \in {recur(task, today)} :
        /\ task' = IF r = <<>> THEN task ELSE r[1]
        /\ step' = [op |-> "recur", before |-> task, line |-> line,
                    fresh |-> (step.op = "complete"), origin |-> <<>>,
                    none |-> (r = <<>>), arg |-> <<>>]
    /\ UNCHANGED <<line, today>>
    /\ UNCHANGED repoVars
    /\ UNCHANGED storeVars

TaskNext ==
    \/ Serialize
    \/ Parse
    \/ Complete
    \/ Recur

TaskSpec == TaskInit /\ [][TaskNext]_vars

----------------------------------------------------------------------------
(* The priority of a task through its life: construction, parse_task,       *)
(* complete() and the commands that set a priority, on a file of one line. *)

\* "-" on the command line of project-pri: remove the priority
Dash == <<"-">>

PriorityInit ==
    /\ RepoInit
    /\ StoreIdle
    /\ today \in Todays
    /\ step = NoStep
    /\ task = DefaultTask
    /\ line \in RawLines

\* Task(completed=..., priority=..., ...); arg is the priority asked for
Construct ==
    \E completed \in BOOLEAN, priority \in {NoneStr} \cup Priorities,
       projects \in SUBSET {<<"p">>} :
        /\ task' = Task(completed, priority,
                        IF completed THEN Date1 ELSE NoDate, Date0,
                        <<"b", "u", "y">>, projects, {}, EmptyDict, NoneStr)
        /\ step' = [op |-> "init", before |-> task, line |-> line,
                    fresh |-> FALSE, origin |-> <<>>, none |-> FALSE,
                    arg |-> priority]
        /\ UNCHANGED <<line, today>>
        /\ UNCHANGED repoVars
        /\ UNCHANGED storeVars

\* ptodo pri 1 P on a file of one line: read_tasks, task.priority = P,
\* write_tasks
Pri ==
    \E priority \in Priorities :
        /\ StripStr(line) # <<>>
        /\ LET read == parse_task(StripStr(line))
               set == [read EXCEPT !.priority = priority]
           IN  /\ task' = set
               /\ line' = Task_str(set)
               /\ step' = [op |-> "pri", before |-> read, line |-> line,
                           fresh |-> FALSE, origin |-> <<>>, none |-> FALSE,
                           arg |-> priority]
        /\ UNCHANGED today
        /\ UNCHANGED repoVars
        /\ UNCHANGED storeVars

\* ptodo project-pri name P on a file of one line: the task is written back
\* with the priority (none for "-") when it belongs to the project
ProjectPri ==
    \E name \in ProjectNames, priority \in Priorities \cup {Dash} :
        /\ StripStr(line) # <<>>
        /\ LET read == parse_task(StripStr(line))
               set == [read EXCEPT !.priority = IF priority = Dash
                                                THEN NoneStr ELSE priority]
           IN  /\ name \in read.projects
               /\ task' = set
               /\ line' = Task_str(set)
               /\ step' = [op |-> "project-pri", before |-> read,
                           line |-> line, fresh |-> FALSE, origin |-> <<>>,
                           none |-> FALSE, arg |-> priority]
        /\ UNCHANGED today
        /\ UNCHANGED repoVars
        /\ UNCHANGED storeVars

PriorityNext ==
    \/ Construct
    \/ Serialize
    \/ Parse
    \/ Complete
    \/ Pri
    \/ ProjectPri

PrioritySpec == PriorityInit /\ [][PriorityNext]_vars

----------------------------------------------------------------------------
(* Sorting (ptodo/core/core.py, sort_tasks) *)

\* priority_key of sort_tasks
priority_key(t) == IF ~Truthy(t.priority) THEN <<"Z">> ELSE t.priority

\* a list sorted by key with t put after every element whose key is not
\* greater than its own
RECURSIVE Insert(_, _)
Insert(sorted_tasks, t) ==
    IF sorted_tasks = <<>> THEN <<t>>
    ELSE IF StrLE(priority_key(Head(sorted_tasks)), priority_key(t))
         THEN <<Head(sorted_tasks)>> \o Insert(Tail(sorted_tasks), t)
         ELSE <<t>> \o sorted_tasks

\* sorted(tasks, key=priority_key): a stable sort
RECURSIVE sort_tasks(_)
sort_tasks(tasks_) ==
    IF tasks_ = <<>> THEN <<>>
    ELSE Insert(sort_tasks(SubSeq(tasks_, 1, Len(tasks_) - 1)),
                tasks_[Len(tasks_)])

SortPriorities == {NoneStr, <<"A">>, <<"B">>, <<"Z">>}

\* tasks that differ in priority and description only
SortTasks ==
    {Task(FALSE, p, NoDate, NoDate, d, {}, {}, EmptyDict, NoneStr) :
        p \in SortPriorities, d \in {<<"a">>, <<"b">>}}

\* the lists of at most n tasks
RECURSIVE Lists(_)
Lists(n) ==
    IF n = 0 THEN {<<>>}
    ELSE LET shorter == Lists(n - 1)
         IN  shorter \cup {Append(l, t) : l \in {x \in shorter : Len(x) = n - 1},
                                          t \in SortTasks}

SortInit ==
    /\ RepoInit
    /\ task = <<>>
    /\ line = <<>>
    /\ today = NoDate
    /\ step = NoStep
    /\ config = <<>>
    /\ procs = <<>>
    /\ tasks \in Lists(MaxLen)

\* tasks = sort_tasks(tasks)
Sort ==
    /\ step.op # "sort"
    /\ tasks' = sort_tasks(tasks)
    /\ step' = [op |-> "sort", before |-> tasks, line |-> <<>>,
                fresh |-> FALSE, origin |-> <<>>, none |-> FALSE,
                arg |-> <<>>]
    /\ UNCHANGED <<task, line, today, config, procs>>
    /\ UNCHANGED repoVars

SortNext == Sort

SortSpec == SortInit /\ [][SortNext]_vars

----------------------------------------------------------------------------
(* The task store (ptodo/core/core.py: read_tasks and write_tasks) and the  *)
(* commands that load the file, change the list and rewrite the file       *)
(* (ptodo/commands/task_commands.py).  The content of a file is the        *)
(* sequence of its lines; the working tree of the repository holds the two *)
(* files.  No other device pushes to the remote here.                      *)

\* the entry of a file that the index or a tree does not hold
Untracked == <<NoneStr>>

\* the invocations that may run at the same time
Procs == {1, 2}

\* get_config: the keys the store and the commands read, at their defaults
DefaultConfig ==
    [auto_sort |-> TRUE, auto_commit |-> TRUE, auto_sync |-> TRUE,
     archive_completed |-> TRUE]

\* the default configuration, and the ones with a single key switched off
Configs ==
    {DefaultConfig,
     [DefaultConfig EXCEPT !.auto_sort = FALSE],
     [DefaultConfig EXCEPT !.auto_commit = FALSE],
     [DefaultConfig EXCEPT !.auto_sync = FALSE],
     [DefaultConfig EXCEPT !.archive_completed = FALSE]}

\* todo.txt and done.txt as the commands find them
TodoFiles ==
    {<<>>,
     <<<<"(", "A", ")", " ", "a">>, <<"x", " ", "c">>>>,
     <<<<"r", " ", "d", "u", "e", ":", "2", "0", "2", "4", "-", "0", "1", "-", "0", "1", " ", "r", "e", "c", "u", "r", ":", "7">>, <<"b">>>>}

DoneFiles == {<<>>, <<<<"x", " ", "d">>>>}

\* ptodo add TEXT: what each invocation adds
AddText(p) == IF p = 1 THEN <<"(", "B", ")", " ", "m">> ELSE <<"n">>

\* ptodo done ID...
DoneIds == {<<1>>, <<1, 2>>}

Commands(p) ==
    {[name |-> "add", text |-> AddText(p), task_ids |-> <<>>]}
        \cup {[name |-> "done", text |-> <<>>, task_ids |-> ids] :
                 ids \in DoneIds}

\* the day of the run
StoreToday == <<2024, 1, 20>>

NotStarted == [pc |-> "start", cmd |-> <<>>, tasks |-> <<>>, ret |-> None]

\* read_tasks, lines 92-97: strip each line, skip the blank ones, parse
RECURSIVE parse_lines(_)
parse_lines(lines) ==
    IF lines = <<>> THEN <<>>
    ELSE LET l == StripStr(Head(lines))
         IN  (IF l # <<>> THEN <<parse_task(l)>> ELSE <<>>)
                 \o parse_lines(Tail(lines))

\* read_tasks, lines 90-105: the tasks of the lines of the file
read_file(r, file_path) ==
    [repo |-> r, tasks |-> parse_lines(r.worktree[file_path])]

\* read_tasks(file_path, git_service): pull when there is a remote, then read
read_tasks(r, file_path, env) ==
    read_file(IF is_repo(r) /\ has_remote(r, env) THEN pull(r, env).repo
              ELSE r,
              file_path)

\* f.write(f"{task}\n") for every task
lines_of(tasks_) == [i \in 1..Len(tasks_) |-> Task_str(tasks_[i])]

\* mutant: the file is opened for appending
write_file_Append(old, lines) == old \o lines

\* open(file_path, "w"): the lines written replace the content
write_file(old, lines) == lines

\* the message of the commit of write_tasks
UpdateMessage == "Update <file_path.name>"

\* write_tasks, line 163: the push is made, its result is not read
write_tasks_pushed(q, t) == Res(q.repo, None, t \o <<Ev("push", q.ret)>>)

\* write_tasks, lines 160-163: the result c of the commit is not read; push
\* when auto_sync is set and there is a remote
write_tasks_push(c, cfg, t, env) ==
    LET t2 == t \o <<Ev("commit", c.ret)>>
    IN  IF cfg.auto_sync /\ has_remote(c.repo, env)
        THEN write_tasks_pushed(push(c.repo, env), t2)
        ELSE Res(c.repo, None, t2)

\* write_tasks, lines 159-160: commit when git status reports changes
write_tasks_commit(r, cfg, t, env) ==
    IF Status(r) = {} THEN Res(r, None, t \o <<Ev("status", "clean")>>)
    ELSE write_tasks_push(commit(r, UpdateMessage, env), cfg,
                          t \o <<Ev("status", "changes")>>, env)

\* mutant: a staging that returns False makes write_tasks give up
write_tasks_status_FailOnStage(s, cfg, t, env) ==
    LET t1 == t \o <<Ev("stage_changes", s.ret)>>
    IN  IF s.ret = ValueError THEN Res(s.repo, ValueError, t1)
        ELSE IF s.ret = False THEN Res(s.repo, False, t1)
        ELSE IF env.status = "err"
             THEN Res(s.repo, "CalledProcessError",
                      t1 \o <<Ev("status", "CalledProcessError")>>)
        ELSE write_tasks_commit(s.repo, cfg, t1, env)

\* write_tasks, lines 148-157, with s the outcome of the staging: its result
\* is not read (a ValueError propagates), then git status runs (check=True:
\* a failure raises)
write_tasks_status(s, cfg, t, env) ==
    LET t1 == t \o <<Ev("stage_changes", s.ret)>>
    IN  IF s.ret = ValueError THEN Res(s.repo, ValueError, t1)
        ELSE IF env.status = "err"
             THEN Res(s.repo, "CalledProcessError",
                      t1 \o <<Ev("status", "CalledProcessError")>>)
        ELSE write_tasks_commit(s.repo, cfg, t1, env)

\* write_tasks, lines 147-148: stage the file
write_tasks_git(r, file_path, cfg, t, env) ==
    write_tasks_status(stage_changes(r, file_path, env), cfg, t, env)

\* write_tasks, lines 136-145, with the file written: nothing more without a
\* repository or with auto_commit off
write_tasks_repo(written, file_path, cfg, env) ==
    IF ~is_repo(written) THEN Res(written, None, <<Ev("write", file_path)>>)
    ELSE IF ~cfg.auto_commit
    THEN Res(written, None, <<Ev("write", file_path)>>)
    ELSE write_tasks_git(written, file_path, cfg, <<Ev("write", file_path)>>,
                         env)

\* write_tasks(tasks, file_path, git_service): sort when auto_sort is set,
\* write the file, then the repository
write_tasks(r, tasks_, file_path, cfg, env) ==
    write_tasks_repo(
        [r EXCEPT !.worktree[file_path] =
            write_file(@, lines_of(IF cfg.auto_sort THEN sort_tasks(tasks_)
                                   ELSE tasks_))],
        file_path, cfg, env)

\* what one call of write_tasks was given and what it left
WriteRecord(tasks_, file_path, old, res) ==
    [tasks |-> tasks_, file_path |-> file_path, old |-> old,
     content |-> res.repo.worktree[file_path], ret |-> res.ret,
     trace |-> res.trace]

\* create_task of cmd_add, lines 167-175: the parts of the parsed text, with
\* today as creation date
create_task(parsed_task, today_) ==
    Task(FALSE, parsed_task.priority, NoDate, today_,
         parsed_task.description, parsed_task.projects,
         parsed_task.contexts, parsed_task.metadata, parsed_task.effort)

\* cmd_add, lines 161-175: the task of the text
added_task(text, today_) == create_task(parse_task(text), today_)

\* cmd_done, lines 199-211: complete the tasks of the ids that are in range
RECURSIVE complete_ids(_, _, _)
complete_ids(tasks_, task_ids, today_) ==
    IF task_ids = <<>>
    THEN [tasks |-> tasks_, completed_tasks |-> <<>>, all_successful |-> TRUE]
    ELSE LET task_id == Head(task_ids)
         IN  IF 1 <= task_id /\ task_id <= Len(tasks_)
             THEN LET done == complete(tasks_[task_id], today_)
                      rest == complete_ids([tasks_ EXCEPT ![task_id] = done],
                                           Tail(task_ids), today_)
                  IN  [rest EXCEPT !.completed_tasks = <<done>> \o @]
             ELSE [complete_ids(tasks_, Tail(task_ids), today_)
                      EXCEPT !.all_successful = FALSE]

\* cmd_done, lines 213-217: the recurrences of the completed tasks
RECURSIVE recurrences(_, _)
recurrences(completed_tasks, today_) ==
    IF completed_tasks = <<>> THEN <<>>
    ELSE recur(Head(completed_tasks), today_)
             \o recurrences(Tail(completed_tasks), today_)

\* [t for t in tasks if not t.completed]
incomplete(tasks_) ==
    LET Open(t) == ~t.completed IN SelectSeq(tasks_, Open)

\* the directory of todo.txt: no repository, a repository after
\* ptodo git-init, or one with the remote of ptodo git-remote
Setups == {"none", "init", "remote"}

StoreInit ==
    /\ \E setup \in Setups :
        /\ isRepo = (setup # "none")
        /\ remotes = IF setup = "remote"
                     THEN <<[name |-> "origin", url |-> "url1"]>> ELSE <<>>
    /\ branch = "main"
    /\ \E todo \in TodoFiles, done \in DoneFiles :
           worktree = [f \in Files |-> IF f = TodoFile THEN todo ELSE done]
    /\ index = [f \in Files |-> Untracked]
    /\ commits = <<>>
    /\ headTree = [f \in Files |-> Untracked]
    /\ pushed = 0
    /\ srvForeign = {}
    /\ pending = FALSE
    /\ settled = FALSE
    /\ last = Idle
    /\ task = <<>>
    /\ line = <<>>
    /\ today = StoreToday
    /\ step = NoStep
    /\ config \in Configs
    /\ procs = [p \in Procs |-> NotStarted]
    /\ tasks = <<>>

\* the outcomes the library calls of one invocation can meet
StoreEnvs == {e \in SyncEnvs : e.fetch = "ok" /\ e.merge = EnvDefault.merge}

\* a command ran its writes: repository afterwards and the record of the call
Wrote(p, op, res, ret, writes) ==
    /\ Len(res.repo.commits) <= MaxCommits
    /\ isRepo' = res.repo.isRepo
    /\ remotes' = res.repo.remotes
    /\ branch' = res.repo.branch
    /\ worktree' = res.repo.worktree
    /\ index' = res.repo.index
    /\ commits' = res.repo.commits
    /\ headTree' = res.repo.headTree
    /\ pushed' = res.repo.pushed
    /\ srvForeign' = res.repo.srvForeign
    /\ pending' = pending
    /\ settled' = FALSE
    /\ last' = [op |-> op,
                args |-> [proc |-> p, cmd |-> procs[p].cmd,
                          read |-> procs[p].tasks],
                before |-> [todo |-> worktree[TodoFile],
                            done |-> worktree[DoneFile],
                            commits |-> Len(commits), pushed |-> pushed],
                ret |-> ret, trace |-> res.trace, writes |-> writes]
    /\ procs' = [procs EXCEPT ![p] = [@ EXCEPT !.pc = "done", !.ret = ret]]
    /\ UNCHANGED taskVars
    /\ UNCHANGED <<config, tasks>>

\* read_tasks returned res: the repository after its pull and the tasks the
\* invocation holds; cmd_done returns 1 when there are no tasks
Loaded(p, cmd, res) ==
    /\ isRepo' = res.repo.isRepo
    /\ remotes' = res.repo.remotes
    /\ branch' = res.repo.branch
    /\ worktree' = res.repo.worktree
    /\ index' = res.repo.index
    /\ commits' = res.repo.commits
    /\ headTree' = res.repo.headTree
    /\ pushed' = res.repo.pushed
    /\ srvForeign' = res.repo.srvForeign
    /\ procs' = [procs EXCEPT ![p] =
                    IF cmd.name = "done" /\ res.tasks = <<>>
                    THEN [pc |-> "done", cmd |-> cmd, tasks |-> res.tasks,
                          ret |-> 1]
                    ELSE [pc |-> "loaded", cmd |-> cmd, tasks |-> res.tasks,
                          ret |-> None]]

\* the first half of a command: tasks = read_tasks(todo_file, git_service)
Load(p) ==
    /\ last = Idle
    /\ procs[p].pc = "start"
    /\ \E cmd \in Commands(p), env \in AccessEnvs :
        /\ Relevant(Repo, env)
        /\ Loaded(p, cmd, read_tasks(Repo, TodoFile, env))
    /\ UNCHANGED <<pending, settled, last>>
    /\ UNCHANGED taskVars
    /\ UNCHANGED <<config, tasks>>

\* cmd_add, lines 178-181: write_tasks returned res
cmd_add_wrote(p, new, res) ==
    Wrote(p, "cmd_add", res, IF res.ret = None THEN 0 ELSE res.ret,
          <<WriteRecord(new, TodoFile, worktree[TodoFile], res)>>)

\* cmd_add, line 178: write_tasks(tasks, todo_file, git_service)
cmd_add_write(p, new, env) ==
    cmd_add_wrote(p, new, write_tasks(Repo, new, TodoFile, config, env))

\* the second half of cmd_add: append the new task, write_tasks
Add(p) ==
    /\ last = Idle
    /\ procs[p].pc = "loaded"
    /\ procs[p].cmd.name = "add"
    /\ \E env \in StoreEnvs :
        /\ Relevant(Repo, env)
        /\ cmd_add_write(p, Append(procs[p].tasks,
                                   added_task(procs[p].cmd.text, today)),
                         env)

\* cmd_done, line 227: write_tasks(tasks, todo_file) returned w
cmd_done_wrote(p, all, ret, w) ==
    Wrote(p, "cmd_done", w, IF w.ret = None THEN ret ELSE w.ret,
          <<WriteRecord(all, TodoFile, worktree[TodoFile], w)>>)

\* cmd_done, line 225: the second write_tasks returned w2
cmd_done_archived(p, completed_tasks, incomplete_tasks, ret, w1, w2) ==
    Wrote(p, "cmd_done", Res(w2.repo, w2.ret, w1.trace \o w2.trace),
          IF w2.ret = None THEN ret ELSE w2.ret,
          <<WriteRecord(completed_tasks, DoneFile, worktree[DoneFile], w1),
            WriteRecord(incomplete_tasks, TodoFile, worktree[TodoFile], w2)>>)

\* cmd_done, lines 224-225: write_tasks(completed_tasks, done_file) returned
\* w1; an exception ends the command, otherwise
\* write_tasks(incomplete_tasks, todo_file)
cmd_done_archive(p, completed_tasks, incomplete_tasks, ret, w1, env) ==
    IF w1.ret # None
    THEN Wrote(p, "cmd_done", w1, w1.ret,
               <<WriteRecord(completed_tasks, DoneFile, worktree[DoneFile],
                             w1)>>)
    ELSE cmd_done_archived(p, completed_tasks, incomplete_tasks, ret, w1,
                           write_tasks(w1.repo, incomplete_tasks, TodoFile,
                                       config, env))

\* cmd_done, lines 219-227: the completed tasks to done.txt and the others to
\* todo.txt when archive_completed is set, all tasks to todo.txt otherwise
cmd_done_write(p, all, completed_tasks, ret, env) ==
    IF config.archive_completed
    THEN cmd_done_archive(p, completed_tasks, incomplete(all), ret,
                          write_tasks(Repo, completed_tasks, DoneFile, config,
                                      env),
                          env)
    ELSE cmd_done_wrote(p, all, ret,
                        write_tasks(Repo, all, TodoFile, config, env))

\* cmd_done, lines 212-228, with c the outcome of the loop over the ids:
\* nothing is written when no task was completed
cmd_done_completed(p, c, env) ==
    IF c.completed_tasks = <<>>
    THEN Wrote(p, "cmd_done", Res(Repo, None, <<>>),
               IF c.all_successful THEN 0 ELSE 1, <<>>)
    ELSE cmd_done_write(p, c.tasks \o recurrences(c.completed_tasks, today),
                        c.completed_tasks,
                        IF c.all_successful THEN 0 ELSE 1, env)

\* the second half of cmd_done: complete, add the recurrences, write
Done(p) ==
    /\ last = Idle
    /\ procs[p].pc = "loaded"
    /\ procs[p].cmd.name = "done"
    /\ \E env \in StoreEnvs :
        /\ Relevant(Repo, env)
        /\ cmd_done_completed(p,
                              complete_ids(procs[p].tasks,
                                           procs[p].cmd.task_ids, today),
                              env)

StoreNext ==
    \/ \E p \in Procs : Load(p)
    \/ \E p \in Procs : Add(p)
    \/ \E p \in Procs : Done(p)
    \/ Return

StoreSpec == StoreInit /\ [][StoreNext]_vars

----------------------------------------------------------------------------
(* Properties of sync *)

IsSync == last.op = "sync"
T == last.trace
HadRemote == Len(remotes) > 0

\* C1: in sync, when commit succeeds and push then fails, for whatever
\* cause (authentication, non-fast-forward, other), sync returns success.
C1_PushFailureSwallowed ==
    (IsSync /\ EvRet(T, "commit") = True /\ EvRet(T, "push") = False)
        => last.ret = True

C1_Witness ==
    /\ IsSync
    /\ EvRet(T, "commit") = True
    /\ EvRet(T, "push") = False
    /\ EvRet(T, "remote.push") = "authentication"
    /\ Len(commits) = last.before.commits + 1
    /\ last.ret = True

\* C2: in sync, when stage_changes returns failure, sync returns failure and
\* neither commit nor push is invoked in that call.
C2_StageFailureAborts ==
    (IsSync /\ EvRet(T, "stage_changes") = False)
        => /\ last.ret = False
           /\ ~HasEv(T, "commit")
           /\ ~HasEv(T, "push")
           /\ Len(commits) = last.before.commits

C2_Witness ==
    /\ IsSync
    /\ HadRemote
    /\ EvRet(T, "stage_changes") = False
    /\ Status(Repo) # {}
    /\ last.args.auto_commit
    /\ last.ret = False

\* C3: in sync, when changes are present after staging, autoCommit is true
\* and commit returns failure, sync returns failure.
C3_CommitFailureAborts ==
    (/\ IsSync
     /\ EvRet(T, "status") = "changes"
     /\ last.args.auto_commit
     /\ EvRet(T, "commit") = False)
        => last.ret = False

C3_Witness ==
    /\ IsSync
    /\ EvRet(T, "status") = "changes"
    /\ last.args.auto_commit
    /\ EvRet(T, "commit") = False
    /\ last.ret = False

\* C4: a sync that finds the working tree clean after staging returns
\* success and invokes neither commit nor push.
C4_CleanTreeSucceeds ==
    (IsSync /\ EvRet(T, "status") = "clean")
        => /\ last.ret = True
           /\ ~HasEv(T, "commit")
           /\ ~HasEv(T, "push")
           /\ Len(commits) = last.before.commits

C4_Witness ==
    /\ IsSync
    /\ HadRemote
    /\ last.args.auto_commit
    /\ last.args.auto_sync
    /\ Len(commits) > 0
    /\ EvRet(T, "status") = "clean"
    /\ Status(Repo) = {}
    /\ last.ret = True

\* C5: in sync with a remote configured, a pull that returns failure does
\* not abort the pipeline: staging is still invoked, commit is invoked when
\* staging succeeds, changes are present and autoCommit is true, push is
\* invoked when commit succeeds and autoSync is true; and sync fails exactly
\* when staging fails, the status cannot be read or commit fails.
C5_PullFailureIgnored ==
    (IsSync /\ EvRet(T, "pull") = False)
        => /\ HadRemote
           /\ HasEv(T, "stage_changes")
           /\ (EvRet(T, "status") = "changes" /\ last.args.auto_commit)
                  => HasEv(T, "commit")
           /\ (EvRet(T, "commit") = True /\ last.args.auto_sync)
                  => HasEv(T, "push")
           /\ (last.ret = True) <=>
                  /\ EvRet(T, "stage_changes") = True
                  /\ EvRet(T, "status") # "GitError"
                  /\ HasEv(T, "commit") => EvRet(T, "commit") = True

C5_Witness ==
    /\ IsSync
    /\ EvRet(T, "pull") = False
    /\ EvRet(T, "stage_changes") = True
    /\ EvRet(T, "commit") = True
    /\ HasEv(T, "push")
    /\ last.ret = True

\* the files a call of stage_changes(file_path) stages
Staged(file_path) == IF file_path = None THEN Files ELSE {file_path}

\* C6: sync with autoCommit = false and changes present after staging
\* returns success, invokes neither commit nor push, and leaves the changes
\* staged in the index: no commit is created and the index holds the
\* working-tree content of every staged file.
C6_NoAutoCommitStagesOnly ==
    (IsSync /\ ~last.args.auto_commit /\ EvRet(T, "status") = "changes")
        => /\ last.ret = True
           /\ ~HasEv(T, "commit")
           /\ ~HasEv(T, "push")
           /\ Len(commits) = last.before.commits
           /\ \A f \in Staged(last.args.file_path) : index[f] = worktree[f]

C6_Witness ==
    /\ IsSync
    /\ ~last.args.auto_commit
    /\ EvRet(T, "status") = "changes"
    /\ index # headTree
    /\ index = worktree
    /\ last.ret = True

\* C7: in every execution of sync, push is invoked if and only if a remote
\* exists, autoSync is true and commit returned success in that call; push
\* is invoked at most once and never before commit; pull, if invoked, is
\* invoked before staging.
C7_PushOrder ==
    IsSync =>
        /\ HasEv(T, "push") <=>
               /\ HadRemote
               /\ last.args.auto_sync
               /\ EvRet(T, "commit") = True
        /\ EvCount(T, "push") <= 1
        /\ HasEv(T, "push") => EvPos(T, "commit") < EvPos(T, "push")
        /\ (HasEv(T, "pull") /\ HasEv(T, "stage_changes"))
               => EvPos(T, "pull") < EvPos(T, "stage_changes")
        /\ EvCount(T, "pull") <= 1

C7_Witness ==
    /\ IsSync
    /\ HasEv(T, "pull")
    /\ EvRet(T, "commit") = True
    /\ EvRet(T, "push") = True
    /\ pushed = Len(commits)

\* C8 as claimed: after a sync whose commit succeeded and whose push failed,
\* a later sync with a remote that is reachable (its pull succeeds), autoSync
\* true and no new local changes (the status is clean after staging) invokes
\* push again.
C8_CleanSyncRetriesPush ==
    (/\ IsSync
     /\ last.before.pending
     /\ HadRemote
     /\ last.args.auto_sync
     /\ EvRet(T, "pull") = True
     /\ EvRet(T, "status") = "clean")
        => HasEv(T, "push")

\* C8 as amended: after a sync whose commit succeeded and whose push failed,
\* a later sync that finds the tree clean returns success without invoking
\* push and the commits stay unpushed; a later sync (remote, autoSync true)
\* whose own commit succeeds invokes push again; and whenever the push of a
\* sync succeeds the remote holds every local commit.
C8_RetryOnlyWithCommit ==
    IsSync =>
        /\ (last.before.pending /\ EvRet(T, "status") = "clean")
               => /\ ~HasEv(T, "push")
                  /\ last.ret = True
                  /\ pending
                  /\ pushed < Len(commits)
        /\ (/\ last.before.pending
            /\ HadRemote
            /\ last.args.auto_sync
            /\ EvRet(T, "commit") = True)
               => HasEv(T, "push")
        /\ EvRet(T, "push") = True
               => (pushed = Len(commits) /\ ~pending)

C8_Witness ==
    /\ IsSync
    /\ last.before.pending
    /\ last.before.pushed < last.before.commits
    /\ EvRet(T, "commit") = True
    /\ EvRet(T, "push") = True
    /\ pushed = Len(commits)
    /\ ~pending

----------------------------------------------------------------------------
(* Properties of pull *)

IsPull == last.op = "pull"

\* C9 as claimed: pull() on a repository with no remote configured performs
\* no fetch and no merge and returns true.
C9_NoRemotePullSucceeds ==
    (IsPull /\ isRepo /\ ~HadRemote)
        => /\ last.ret = True
           /\ ~HasEv(T, "fetch")
           /\ ~HasEv(T, "merge")

\* C9 as amended: pull() on a repository with no remote configured performs
\* no fetch and no merge and returns false.
C9_NoRemotePullFails ==
    (IsPull /\ isRepo /\ ~HadRemote)
        => /\ last.ret = False
           /\ ~HasEv(T, "fetch")
           /\ ~HasEv(T, "merge")

C9_Witness ==
    /\ IsPull
    /\ isRepo
    /\ ~HadRemote
    /\ T = <<>>
    /\ last.ret = False

\* C10: pull() returns success whenever the fetch succeeds, also when the
\* merge of the fetched remote-tracking reference reports conflicts or
\* raises; it returns failure when the fetch fails, and then no merge is
\* attempted.
C10_PullResultFollowsFetch ==
    IsPull =>
        /\ EvRet(T, "fetch") = "ok" => last.ret = True
        /\ EvRet(T, "fetch") = "GitError"
               => (last.ret = False /\ ~HasEv(T, "merge"))
        /\ HasEv(T, "merge") => EvRet(T, "fetch") = "ok"

C10_Witness ==
    /\ IsPull
    /\ EvRet(T, "fetch") = "ok"
    /\ EvRet(T, "merge") = "GitError"
    /\ last.ret = True

----------------------------------------------------------------------------
(* Properties of the results of the GitService methods *)

\* the call was given no path, or a path of a file of the repository
PathInside ==
    last.op \in {"stage_changes", "sync"}
        => last.args.file_path \in Files \cup {None}

IsStage == last.op = "stage_changes"

\* the path lies outside the repository directory
PathOutside == last.args.file_path \in {Outside, Sibling}

\* C12 as claimed: stage_changes(path) with any path outside the repository
\* root raises ValueError instead of returning false, and stages nothing.
C12_OutsideAlwaysRaises ==
    (IsStage /\ PathOutside)
        => /\ last.ret = ValueError
           /\ index = last.args.index

\* C12 as amended: on a repository that can be opened, stage_changes(path)
\* with a path outside the repository root raises ValueError instead of
\* returning false; where the directory is not a repository or the
\* repository cannot be opened it returns false; in every case it stages
\* nothing.
C12_OutsideRaisesOnRepository ==
    (IsStage /\ PathOutside)
        => /\ index = last.args.index
           /\ last.ret = IF last.args.is_repo /\ last.args.access = "ok"
                         THEN ValueError ELSE False

C12_Witness ==
    /\ IsStage
    /\ last.args.file_path = Outside
    /\ isRepo
    /\ worktree # index
    /\ index = last.args.index
    /\ last.ret = ValueError

IsCommit == last.op = "commit"

\* C13: commit(message) returns false and creates no commit when message is
\* empty or blank, or when the tree written from the index equals the tree
\* of the current HEAD commit; when it does commit, the new commit's parent
\* is the commit HEAD pointed to, or it has no parent if there was no HEAD.
C13_CommitGuards ==
    IsCommit =>
        /\ (\/ Strip(last.args.message) = ""
            \/ (last.before.commits > 0 /\ last.args.tree_same))
               => /\ last.ret = False
                  /\ Len(commits) = last.before.commits
        /\ last.ret = False => Len(commits) = last.before.commits
        /\ last.ret = True
               => /\ Len(commits) = last.before.commits + 1
                  /\ commits[Len(commits)].parents =
                         IF last.before.commits = 0 THEN <<>>
                         ELSE <<last.before.commits>>

C13_Witness ==
    /\ IsCommit
    /\ last.ret = True
    /\ last.before.commits = 1
    /\ commits[2].parents = <<1>>
    /\ headTree = index

----------------------------------------------------------------------------
(* Properties of add_remote (checked under RemoteSpec) *)

IsAddRemote == last.op = "add_remote"

\* the remotes of a sequence that are not called name, in their order
OtherRemotes(rs, name) ==
    LET Other(x) == x.name # name IN SelectSeq(rs, Other)

\* C14: after add_remote(name, url) returns true, exactly one remote called
\* name exists and its URL is url, whether name was absent before or existed
\* with another URL; every other configured remote is unchanged.
C14_AddRemoteSetsUrl ==
    (IsAddRemote /\ last.ret = True)
        => /\ Cardinality({i \in 1..Len(remotes) :
                              remotes[i].name = last.args.name}) = 1
           /\ \A i \in 1..Len(remotes) :
                  remotes[i].name = last.args.name
                      => remotes[i].url = last.args.url
           /\ OtherRemotes(remotes, last.args.name)
                  = OtherRemotes(last.args.remotes, last.args.name)

C14_Witness ==
    /\ IsAddRemote
    /\ last.ret = True
    /\ Len(last.args.remotes) = 2
    /\ \E i \in 1..2 :
           /\ last.args.remotes[i].name = last.args.name
           /\ last.args.remotes[i].url # last.args.url
    /\ Len(remotes) = 2

----------------------------------------------------------------------------
(* Properties of the codec (checked under TaskSpec) *)

\* a word of a description that no rule of the grammar reads as a marker
PlainWord(w) ==
    /\ w # <<>>
    /\ \A i \in 1..Len(w) : ~IsSpace(w[i])
    /\ w[1] \notin {"+", "@"}
    /\ IndexOf(w, ":") = 0
    /\ ~DateShape(w)
    /\ ~PriorityShape(w)

\* plain words separated by single spaces
PlainText(d) ==
    d = <<>> \/ \A i \in 1..Len(Split(d)) : PlainWord(Split(d)[i])

\* a name or a value: not empty, no whitespace
Token(n) == n # <<>> /\ n # NoneStr /\ \A i \in 1..Len(n) : ~IsSpace(n[i])

\* a task without malformed fields
WellFormed(t) ==
    /\ t.priority = NoneStr \/ (Len(t.priority) = 1 /\ IsUpper(t.priority[1]))
    /\ ~t.completed => t.completion_date = NoDate
    /\ \A d \in {t.completion_date, t.creation_date} :
           d = NoDate \/ ValidDate(d[1], d[2], d[3])
    /\ PlainText(t.description)
    /\ \A n \in t.projects \cup t.contexts : Token(n)
    /\ \A k \in DOMAIN t.metadata :
           /\ Token(k)
           /\ PlainWord(k)
           /\ k # EffortKey
           /\ Token(t.metadata[k])
    /\ t.effort = NoneStr \/ Token(t.effort)

\* the step parsed the line that str() had just made of the task
RoundTrip == step.op = "parse" /\ step.fresh

\* C15 as claimed: for every Task t without malformed fields (any
\* combination of completed flag, optional priority, optional creation_date,
\* optional completion_date when completed, projects, contexts, metadata,
\* optional effort, a description of plain words), parse(serialize(t))
\* equals t in every field.
C15_RoundTripAll ==
    (RoundTrip /\ WellFormed(step.before)) => task = step.before

\* the first token of the serialized task is read back as what the task says:
\* a completed task that has a creation date also has a completion date, and
\* the line of a task that is not completed does not begin with "x "
Unambiguous(t) ==
    /\ (t.completed /\ t.creation_date # NoDate)
           => t.completion_date # NoDate
    /\ ~t.completed => ~StartsWith(Task_str(t), <<"x", " ">>)

\* C15 as amended: for every Task t without malformed fields in which a
\* completed task with a creation_date also has a completion_date, and
\* whose serialized line, when t is not completed, does not begin with the
\* word "x" followed by a space, parse(serialize(t)) equals t in every field.
C15_RoundTripUnambiguous ==
    (RoundTrip /\ WellFormed(step.before) /\ Unambiguous(step.before))
        => task = step.before

C15_Witness ==
    /\ RoundTrip
    /\ WellFormed(step.before)
    /\ Unambiguous(step.before)
    /\ step.before.completed
    /\ Truthy(step.before.priority)
    /\ step.before.completion_date # NoDate
    /\ step.before.creation_date # NoDate
    /\ step.before.description # <<>>
    /\ Cardinality(step.before.projects) = 2
    /\ step.before.contexts # {}
    /\ DOMAIN step.before.metadata # {}
    /\ Truthy(step.before.effort)
    /\ task = step.before

\* the step serialized the task that a round trip had just parsed
Reserialized == step.op = "str" /\ step.fresh

C17_Complete ==
    step.op = "complete" =>
        LET b == step.before
        IN  /\ task.completed
            /\ task.completion_date = today
            /\ task.priority = NoneStr
            /\ Truthy(b.priority)
                   => /\ DOMAIN task.metadata = DOMAIN b.metadata \cup {PriKey}
                      /\ task.metadata[PriKey] = b.priority
                      /\ \A k \in DOMAIN b.metadata \ {PriKey} :
                             task.metadata[k] = b.metadata[k]
            /\ ~Truthy(b.priority) => task.metadata = b.metadata
            /\ task.description = b.description
            /\ task.creation_date = b.creation_date
            /\ task.projects = b.projects
            /\ task.contexts = b.contexts
            /\ task.effort = b.effort

C17_Witness ==
    /\ step.op = "complete"
    /\ ~step.before.completed
    /\ step.before.priority = <<"A">>
    /\ step.before.metadata = Recurring
    /\ task.metadata[PriKey] = <<"A">>
    /\ task.priority = NoneStr
    /\ task.completion_date = today

\* the line has the form 'x (P) ...' with P an uppercase letter
CompletedWithPriority(l) ==
    /\ Len(l) >= 5
    /\ SubSeq(l, 1, 3) = <<"x", " ", "(">>
    /\ IsUpper(l[4])
    /\ l[5] = ")"
    /\ Len(l) > 5 => IsSpace(l[6])

C19_RecurSetsDue ==
    (step.op = "recur" /\ ~step.none)
        => /\ task.metadata[DueKey] =
                  strftime(next_due_date(
                      parse_date(step.before.metadata[DueKey]),
                      ToInt(step.before.metadata[RecurKey]), today))
           /\ task.creation_date = today
           /\ ~task.completed

\* C20: recur() on a task that had priority P and was then completed with
\* complete() yields a new task whose priority field is P and whose
\* metadata has no "pri" key, so that the new task serializes with the
\* '(P)' marker and without 'pri:P'.
C20_RecurRestoresPriority ==
    (/\ step.op = "recur"
     /\ step.fresh
     /\ ~step.none
     /\ PriKey \in DOMAIN step.before.metadata)
        => /\ task.priority = step.before.metadata[PriKey]
           /\ PriKey \notin DOMAIN task.metadata
           /\ StartsWith(Task_str(task),
                         <<"(">> \o step.before.metadata[PriKey] \o <<")">>)

----------------------------------------------------------------------------
(* Properties of GitService outside a repository *)

\* the methods that need a repository
RepoMethods ==
    {"add_remote", "has_remote", "stage_changes", "commit", "pull", "push",
     "sync"}

\* C23: when the root directory is not inside any repository, add_remote,
\* has_remote, stage_changes (with no path), commit, pull, push and sync each
\* return false and perform no repository operation: no remote is created,
\* nothing is staged, no commit is made, nothing is fetched or pushed and no
\* other method is called.
C23_NotARepository ==
    (/\ last.op \in RepoMethods
     /\ ~isRepo
     /\ IsStage => last.args.file_path = None)
        => /\ last.ret = False
           /\ T = <<>>
           /\ remotes = <<>>
           /\ index = EmptyTree
           /\ commits = <<>>
           /\ pushed = 0

C23_Witness ==
    /\ IsSync
    /\ ~isRepo
    /\ last.args.file_path = None
    /\ last.args.auto_commit
    /\ last.args.auto_sync
    /\ worktree[TodoFile] = "v2"
    /\ last.ret = False
    /\ T = <<>>

----------------------------------------------------------------------------
(* Properties of sync on unchanged files *)

\* C26: sync(path) returns success whenever the file at path has no changes
\* relative to HEAD (nothing to commit for that path), even if other files
\* in the working tree are modified or untracked.  Stated for the calls
\* that are given a commit message and in which no library call of staging,
\* status or commit raises.
C26_UnchangedPathSucceeds ==
    (/\ IsSync
     /\ isRepo
     /\ last.args.file_path \in Files
     /\ last.args.path_clean
     /\ last.args.lib_ok
     /\ Strip(last.args.commit_message) # "")
        => last.ret = True

\* C27 as claimed: after a sync that staged all changes and committed
\* successfully, an immediately following sync with no intervening local or
\* remote change creates no new commit and returns success.  Stated for the
\* calls that are given no path or a path inside the repository and in
\* which no library call of staging, status or commit raises.
C27_SecondSyncIsNoOp ==
    (IsSync /\ last.before.settled /\ last.args.lib_ok /\ PathInside)
        => /\ Len(commits) = last.before.commits
           /\ last.ret = True

\* C27 as amended: after a sync that staged all changes and committed
\* successfully, an immediately following sync with no intervening local or
\* remote change creates no new commit, provided the remote holds no commits
\* of another device for its pull to merge; it returns success unless
\* staging or reading the status fails.
C27_SecondSyncNoCommit ==
    (IsSync /\ last.before.settled /\ srvForeign = {})
        => /\ Len(commits) = last.before.commits
           /\ ~HasEv(T, "commit")
           /\ (EvRet(T, "stage_changes") = True
                   /\ EvRet(T, "status") # "GitError")
                  => (last.ret = True /\ EvRet(T, "status") = "clean")

C27_Witness ==
    /\ IsSync
    /\ last.before.settled
    /\ srvForeign = {}
    /\ HadRemote
    /\ last.args.auto_commit
    /\ last.args.auto_sync
    /\ last.args.file_path = None
    /\ last.before.commits = 2
    /\ Len(commits) = 2
    /\ EvRet(T, "status") = "clean"
    /\ last.ret = True

----------------------------------------------------------------------------
(* Properties of a failed add_remote (checked under RemoteSpec) *)

\* C30: add_remote leaves the remotes unchanged on failure: if
\* add_remote(name, url) returns false for a name that was already
\* configured, the remote name with its previous URL is still present
\* afterwards.
C30_FailedAddRemoteKeepsRemote ==
    (IsAddRemote /\ last.ret = False)
        => \A i \in 1..Len(last.args.remotes) :
               last.args.remotes[i].name = last.args.name
                   => \E j \in 1..Len(remotes) :
                          remotes[j] = last.args.remotes[i]

----------------------------------------------------------------------------
(* Properties of the priority of completed tasks (checked under             *)
(* PrioritySpec)                                                           *)

\* C25 as claimed: every Task with completed = true has priority = none,
\* after any sequence of construction, parse, complete() and
\* priority-setting commands (pri, project pri).
C25_CompletedHasNoPriority ==
    task.completed => ~Truthy(task.priority)

\* C25 as amended: a Task with completed = true has priority = none right
\* after its construction and right after complete(); parse_task gives the
\* task of a line 'x (P) ...' the priority P, and the commands pri and
\* project-pri give the task the priority asked for whether it is completed
\* or not.
C25_ClearedByConstructionAndComplete ==
    /\ step.op \in {"init", "complete"}
           => (task.completed => ~Truthy(task.priority))
    /\ step.op = "complete" => task.completed
    /\ (step.op = "parse" /\ CompletedWithPriority(step.line))
           => (task.completed /\ Truthy(task.priority))
    /\ step.op = "pri"
           => (task.priority = step.arg
               /\ task.completed = step.before.completed)
    /\ step.op = "project-pri"
           => (task.priority = (IF step.arg = Dash THEN NoneStr ELSE step.arg)
               /\ task.completed = step.before.completed)

C25_Witness ==
    /\ step.op = "init"
    /\ step.arg = <<"A">>
    /\ task.completed
    /\ task.priority = NoneStr

----------------------------------------------------------------------------
(* Properties of sorting (checked under SortSpec) *)

\* the place of a task in the order of the claim: the letters in ascending
\* order, then the tasks without a priority
LetterRank(t) ==
    IF Truthy(t.priority) THEN Ord(t.priority[1]) ELSE Len(Alphabet) + 1

\* the tasks of a list that have the rank k, in their order
OfRank(l, k) ==
    LET Has(t) == LetterRank(t) = k IN SelectSeq(l, Has)

\* C21: sorting orders tasks by priority letter A..Z ascending, places every
\* task without a priority after every task that has a priority letter
\* (including Z), keeps the original relative order among tasks with the
\* same key, and returns a permutation of its input.
C21_SortedByPriority ==
    step.op = "sort"
        => /\ \A i, j \in 1..Len(tasks) :
                  i < j => LetterRank(tasks[i]) <= LetterRank(tasks[j])
           /\ \A k \in 1..(Len(Alphabet) + 1) :
                  OfRank(tasks, k) = OfRank(step.before, k)
           /\ Len(tasks) = Len(step.before)

----------------------------------------------------------------------------
(* Properties of the task store (checked under StoreSpec) *)

\* a command that rewrites files has run
IsWrite == last.op \in {"cmd_add", "cmd_done"}

\* the lines write_tasks writes for the list it was given
written_lines(tasks_) ==
    lines_of(IF config.auto_sort THEN sort_tasks(tasks_) ELSE tasks_)

\* no exception left the call of write_tasks
NoException(w) ==
    /\ EvRet(w.trace, "stage_changes") # ValueError
    /\ EvRet(w.trace, "status") # "CalledProcessError"

\* C22: write replaces the file contents with the serialized task list
\* before any repository operation (stage, commit, push) is invoked, and a
\* boolean failure of staging, commit or push afterwards neither changes
\* the written file nor makes write fail.
C22_WriteBeforeRepository ==
    IsWrite =>
        \A i \in 1..Len(last.writes) :
            LET w == last.writes[i]
            IN  /\ w.trace[1] = Ev("write", w.file_path)
                /\ EvCount(w.trace, "write") = 1
                /\ w.content = written_lines(w.tasks)
                /\ NoException(w) => w.ret = None

C22_Witness ==
    /\ last.op = "cmd_add"
    /\ Len(last.writes) = 1
    /\ EvRet(last.writes[1].trace, "stage_changes") = False
    /\ EvRet(last.writes[1].trace, "commit") = False
    /\ last.writes[1].ret = None
    /\ last.writes[1].content # last.writes[1].old
    /\ worktree[TodoFile] = last.writes[1].content

\* the descriptions of the tasks of a file
DescriptionsOf(lines) ==
    LET ts == parse_lines(lines) IN {ts[i].description : i \in 1..Len(ts)}

\* C24: with two invocations running concurrently on the same file (each
\* one load, mutate, rewrite, no locking) the final content of the file is
\* exactly the list written by the invocation that rewrote it last: the
\* tasks that invocation had loaded with its own change, whatever the other
\* invocation wrote in between; and no error is reported.
C24_LastWriterWins ==
    last.op = "cmd_add"
        => /\ worktree[TodoFile] =
                  written_lines(Append(last.args.read,
                                       added_task(last.args.cmd.text, today)))
           /\ NoException(last.writes[1]) => last.ret = 0

\* both invocations added a task and reported success, and the task of the
\* first is not in the file
C24_Witness ==
    /\ last.op = "cmd_add"
    /\ last.args.proc = 2
    /\ procs[1].pc = "done"
    /\ procs[1].cmd.name = "add"
    /\ procs[1].ret = 0
    /\ procs[2].ret = 0
    /\ <<"m">> \notin DescriptionsOf(worktree[TodoFile])
    /\ <<"n">> \in DescriptionsOf(worktree[TodoFile])

\* C28: in write with a repository bound and auto_commit enabled, push is
\* invoked only if the commit made in that same write succeeded; a failed
\* commit is never followed by a push.
C28_PushOnlyAfterCommit ==
    IsWrite =>
        \A i \in 1..Len(last.writes) :
            HasEv(last.writes[i].trace, "push")
                => EvRet(last.writes[i].trace, "commit") = True

\* C29: when archive_completed is enabled, cmd_done leaves every task that
\* was in the todo file or in the done file before the command present in
\* one of the two files afterwards.  Stated for the invocations that read
\* the todo file as it was when they rewrote it and that ended without an
\* exception.
C29_DoneKeepsEveryTask ==
    (/\ last.op = "cmd_done"
     /\ config.archive_completed
     /\ last.ret \in {0, 1}
     /\ last.args.read = parse_lines(last.before.todo))
        => (DescriptionsOf(last.before.todo)
                \cup DescriptionsOf(last.before.done))
               \subseteq (DescriptionsOf(worktree[TodoFile])
                             \cup DescriptionsOf(worktree[DoneFile]))

====
